---------------------------- MODULE Spec2Model ----------------------------
(***************************************************************************)
(* alpacadecimal: a decimal type with two representations, a fast int64    *)
(* fixed-point field (value * 10^12) and a fallback handle to an           *)
(* arbitrary-precision decimal (shopspring/decimal).                       *)
(*                                                                         *)
(* The model follows src/unnamed/part_006 (the full variant of the         *)
(* package); the definitions suffixed V2 follow the earlier variant        *)
(* src/decimal.go where the two differ.                                    *)
(*                                                                         *)
(* TLC's integers are 32 bits wide, the program's are 64 bits wide, so     *)
(* every int64 / uint64 / big.Int value is held as a sign and a sequence   *)
(* of base-1000 limbs, least significant first.  Go's int64 arithmetic     *)
(* wraps modulo 2^64: the I64 operators compute the exact result and wrap  *)
(* it, and the Ovf operators say whether the exact result left int64.      *)
(***************************************************************************)
EXTENDS Integers, Sequences, FiniteSets, TLC

(***************************************************************************)
(* Natural numbers as limb sequences (no leading zero limb; 0 is <<>>).    *)
(* Carries are found by look-ahead rather than by recursion over the       *)
(* limbs, which keeps TLC's evaluation shallow.                            *)
(***************************************************************************)
Base == 10 * 10 * 10

\* a function over 1..n as a sequence, every element computed once
NSeq(f) == f \o <<>>

NTrim(s) ==
    IF \A i \in 1..Len(s) : s[i] = 0 THEN <<>>
    ELSE SubSeq(s, 1, CHOOSE i \in 1..Len(s) :
                          s[i] # 0 /\ \A k \in (i + 1)..Len(s) : s[k] = 0)

NAt(a, i) == IF i <= Len(a) THEN a[i] ELSE 0
NMax(m, n) == IF m < n THEN n ELSE m

\* the carry into limb i of a + b
NCarry(a, b, i) ==
    \E j \in 1..(i - 1) :
        /\ NAt(a, j) + NAt(b, j) >= Base
        /\ \A k \in (j + 1)..(i - 1) : NAt(a, k) + NAt(b, k) = Base - 1

NAdd(a, b) ==
    IF b = <<>> THEN NTrim(a)
    ELSE NTrim(NSeq([i \in 1..(NMax(Len(a), Len(b)) + 1) |->
                   (NAt(a, i) + NAt(b, i)
                      + (IF NCarry(a, b, i) THEN 1 ELSE 0)) % Base]))

\* the borrow out of the limbs below i in a - b
NBorrow(a, b, i) ==
    \E j \in 1..(i - 1) :
        /\ NAt(a, j) < NAt(b, j)
        /\ \A k \in (j + 1)..(i - 1) : NAt(a, k) = NAt(b, k)

\* a - b for a >= b
NSub(a, b) ==
    IF b = <<>> THEN a
    ELSE NTrim(NSeq([i \in 1..Len(a) |->
                   (a[i] - NAt(b, i)
                      - (IF NBorrow(a, b, i) THEN 1 ELSE 0)) % Base]))

NCmp(a, b) ==
    IF Len(a) < Len(b) THEN -1
    ELSE IF Len(a) > Len(b) THEN 1
    ELSE IF a = b THEN 0
    ELSE LET i == CHOOSE j \in 1..Len(a) :
                      a[j] # b[j] /\ \A k \in (j + 1)..Len(a) : a[k] = b[k]
         IN  IF a[i] < b[i] THEN -1 ELSE 1

NLe(a, b) == NCmp(a, b) <= 0
NLt(a, b) == NCmp(a, b) < 0

NShl(a, n) == IF a = <<>> THEN a ELSE NSeq([i \in 1..n |-> 0]) \o a
NShr(a, n) == IF Len(a) <= n THEN <<>> ELSE SubSeq(a, n + 1, Len(a))
NLow(a, n) == NTrim(IF Len(a) <= n THEN a ELSE SubSeq(a, 1, n))

\* columns of native numbers below 2 * 10^9, as a natural
NCols(c) ==
    NAdd(NAdd(NSeq([i \in 1..Len(c) |-> c[i] % Base]),
              NShl(NTrim(NSeq([i \in 1..Len(c) |-> (c[i] \div Base) % Base])), 1)),
         NShl(NTrim(NSeq([i \in 1..Len(c) |-> c[i] \div (Base * Base)])), 2))

\* a * k for a native k <= 2 * 10^6
NMulSmall(a, k) ==
    IF k = 0 THEN <<>> ELSE NCols(NSeq([i \in 1..Len(a) |-> a[i] * k]))

RECURSIVE NColSum(_, _, _, _)
NColSum(a, b, k, i) ==
    IF i > Len(a) \/ i > k THEN 0
    ELSE a[i] * b[k + 1 - i] + NColSum(a, b, k, i + 1)

NMul(a, b) ==
    IF a = <<>> \/ b = <<>> THEN <<>>
    ELSE NCols(NSeq([k \in 1..(Len(a) + Len(b) - 1) |->
                   NColSum(a, b, k, NMax(1, k + 1 - Len(b)))]))

\* the remainder by a native k of the limbs of a from i upward
RECURSIVE NRemFrom(_, _, _)
NRemFrom(a, k, i) ==
    IF i > Len(a) THEN 0 ELSE (NRemFrom(a, k, i + 1) * Base + a[i]) % k

\* <<quotient, remainder>> of a by a native k, 0 < k <= 2 * 10^6
NDivSmall(a, k) ==
    <<NTrim(NSeq([i \in 1..Len(a) |->
                     (NRemFrom(a, k, i + 1) * Base + a[i]) \div k])),
      NRemFrom(a, k, 1)>>

NFromInt(k) == NTrim(<<k % Base, (k \div Base) % Base, k \div (Base * Base)>>)

\* one limb of long division of r by b, for r < Base * b and b of two limbs
\* or more: the digit lies between two estimates made from the leading
\* limbs; returns <<digit, new remainder>>
NDivDigit(r, b, h) == <<h, NSub(r, NMulSmall(b, h))>>

NDivStep(r, b) ==
    LET n == Len(b)
        r3 == (NAt(r, n + 1) * Base + NAt(r, n)) * Base + NAt(r, n - 1)
        b2 == b[n] * Base + b[n - 1]
        lo == r3 \div (b2 + 1)
        hi == IF (r3 + 1) \div b2 < Base THEN (r3 + 1) \div b2 ELSE Base - 1
    IN  NDivDigit(r, b, CHOOSE d \in lo..hi :
                            /\ NLe(NMulSmall(b, d), r)
                            /\ NLt(r, NMulSmall(b, d + 1)))

\* the next quotient limb and remainder for the running value t
NDivLimb(t, b) == IF NLt(t, b) THEN <<0, t>> ELSE NDivStep(t, b)

\* long division of a by b over the limbs i, i-1, .. 1 of a, with the
\* quotient limbs q found so far and the running remainder r < b
RECURSIVE NDivLongR(_, _, _, _, _)
RECURSIVE NDivLongS(_, _, _, _, _)
NDivLongR(a, b, i, q, r) ==
    IF i = 0 THEN <<NTrim(q), r>>
    ELSE NDivLongS(a, b, i, q, NDivLimb(NTrim(<<a[i]>> \o r), b))

NDivLongS(a, b, i, q, s) == NDivLongR(a, b, i - 1, <<s[1]>> \o q, s[2])

\* b = m * Base^n for a single limb m
NIsShifted(b) == \A i \in 1..(Len(b) - 1) : b[i] = 0

\* <<quotient, remainder>> of a by b > 0
NDivMod(a, b) ==
    IF NLt(a, b) THEN <<<<>>, a>>
    ELSE IF NIsShifted(b)
    THEN LET n == Len(b) - 1
             d == NDivSmall(NShr(a, n), b[Len(b)])
         IN  <<d[1], NTrim(SubSeq(a, 1, n) \o NFromInt(d[2]))>>
    ELSE LET i == Len(a) - Len(b) + 1
         IN  NDivLongR(a, b, i, <<>>, SubSeq(a, i + 1, Len(a)))

\* 10^n
NPow10(n) ==
    NSeq([i \in 1..(n \div 3) |-> 0])
      \o <<IF n % 3 = 0 THEN 1 ELSE IF n % 3 = 1 THEN 10 ELSE 100>>

(***************************************************************************)
(* Integers: a sign and a magnitude.  Zero is never negative, so equal     *)
(* numbers are equal records.                                              *)
(***************************************************************************)
ZMk(neg, mag) == [neg |-> neg /\ mag # <<>>, mag |-> mag]
Z0 == ZMk(FALSE, <<>>)
ZInt(k) == ZMk(k < 0, NFromInt(IF k < 0 THEN -k ELSE k))
\* a literal written in groups of three digits, most significant first
ZLit(g) == ZMk(FALSE, NTrim(NSeq([i \in 1..Len(g) |-> g[Len(g) + 1 - i]])))
ZNeg(a) == ZMk(~a.neg, a.mag)
ZAbs(a) == ZMk(FALSE, a.mag)

ZAdd(a, b) ==
    IF a.neg = b.neg THEN ZMk(a.neg, NAdd(a.mag, b.mag))
    ELSE IF NLe(b.mag, a.mag) THEN ZMk(a.neg, NSub(a.mag, b.mag))
    ELSE ZMk(b.neg, NSub(b.mag, a.mag))

ZSub(a, b) == ZAdd(a, ZNeg(b))
ZMul(a, b) == ZMk(a.neg # b.neg, NMul(a.mag, b.mag))

ZCmp(a, b) ==
    IF a.neg /\ ~b.neg THEN -1
    ELSE IF ~a.neg /\ b.neg THEN 1
    ELSE IF a.neg THEN NCmp(b.mag, a.mag)
    ELSE NCmp(a.mag, b.mag)

ZLt(a, b) == ZCmp(a, b) < 0
ZLe(a, b) == ZCmp(a, b) <= 0
ZGt(a, b) == ZCmp(a, b) > 0
ZGe(a, b) == ZCmp(a, b) >= 0

\* Go's / and %: the quotient truncates toward zero, the remainder has the
\* sign of the dividend
ZQuo(a, b) == ZMk(a.neg # b.neg, NDivMod(a.mag, b.mag)[1])
ZRem(a, b) == ZMk(a.neg, NDivMod(a.mag, b.mag)[2])

\* a small integer as a native number
ZToInt(a) ==
    LET m == a.mag
        v == (IF Len(m) >= 1 THEN m[1] ELSE 0)
             + (IF Len(m) >= 2 THEN m[2] * Base ELSE 0)
             + (IF Len(m) >= 3 THEN m[3] * Base * Base ELSE 0)
    IN  IF a.neg THEN -v ELSE v

(***************************************************************************)
(* Go's int64: arithmetic wraps modulo 2^64.                               *)
(***************************************************************************)
Z1 == ZInt(1)
\* math.MaxInt64, math.MinInt64 and 2^64
MaxInt64 == ZLit(<<9, 223, 372, 36, 854, 775, 807>>)
MinInt64 == ZNeg(ZLit(<<9, 223, 372, 36, 854, 775, 808>>))
TwoTo64 == ZLit(<<18, 446, 744, 73, 709, 551, 616>>)

InI64(z) == ZLe(MinInt64, z) /\ ZLe(z, MaxInt64)

\* a value between -2^64 and 2^64 brought into int64
WrapOnce(m) ==
    IF ZGt(m, MaxInt64) THEN ZSub(m, TwoTo64)
    ELSE IF ZLt(m, MinInt64) THEN ZAdd(m, TwoTo64)
    ELSE m

\* the int64 congruent to z modulo 2^64
Wrap64(z) == IF InI64(z) THEN z ELSE WrapOnce(ZRem(z, TwoTo64))

I64Add(a, b) == WrapOnce(ZAdd(a, b))
I64Sub(a, b) == WrapOnce(ZSub(a, b))
I64Mul(a, b) == Wrap64(ZMul(a, b))
I64Neg(a) == WrapOnce(ZNeg(a))
\* the one quotient that leaves int64, MinInt64 / -1, wraps to MinInt64
I64Quo(a, b) == WrapOnce(ZQuo(a, b))
I64Rem(a, b) == ZRem(a, b)

OvfAdd(a, b) == ~InI64(ZAdd(a, b))
OvfSub(a, b) == ~InI64(ZSub(a, b))
OvfMul(a, b) == ~InI64(ZMul(a, b))
OvfNeg(a) == ~InI64(ZNeg(a))

(***************************************************************************)
(* The fixed-point encoding.  The constants are untyped constant           *)
(* expressions of the source, written here with the values the compiler    *)
(* gives them.                                                             *)
(***************************************************************************)
precision == 12
\* 1e12
scale == ZLit(<<1, 0, 0, 0, 0>>)
\* int64(math.MaxInt64) / scale and int64(math.MinInt64) / scale
maxInt == ZLit(<<9, 223, 372>>)
minInt == ZNeg(ZLit(<<9, 223, 372>>))
\* maxInt * scale and minInt * scale
maxIntInFixed == ZLit(<<9, 223, 372, 0, 0, 0, 0>>)
minIntInFixed == ZNeg(ZLit(<<9, 223, 372, 0, 0, 0, 0>>))
\* 1000 * scale and -1000 * scale
a1000InFixed == ZLit(<<1, 0, 0, 0, 0, 0>>)
aNeg1000InFixed == ZNeg(ZLit(<<1, 0, 0, 0, 0, 0>>))
\* scale / 100
aCentInFixed == ZLit(<<10, 0, 0, 0>>)
\* 1000_000
million == ZLit(<<1, 0, 0>>)

\* pow10Table[i] is 10^i for i in 0..18
pow10Table == [i \in 0..18 |-> ZMk(FALSE, NPow10(i))]

(***************************************************************************)
(* float64, as far as div uses it: a finite non-zero value is              *)
(* (-1)^neg * m * 2^e with m < 2^53 + 1; every operation rounds the exact  *)
(* result to 53 significant bits, ties to even.  The exponents div can     *)
(* produce stay far inside the exponent range of the format.               *)
(***************************************************************************)
RECURSIVE IPow2(_)
IPow2(n) == IF n = 0 THEN 1 ELSE 2 * IPow2(n - 1)

NSquare(h) == NMul(h, h)

RECURSIVE NPow2R(_)
NPow2R(n) ==
    IF n < 20 THEN NFromInt(IPow2(n))
    ELSE NMulSmall(NSquare(NPow2R(n \div 2)), IF n % 2 = 0 THEN 1 ELSE 2)

\* the powers of two div's float64 operations need
Pow2Table == NSeq([i \in 1..(256 + 1) |-> NPow2R(i - 1)])

NPow2(n) == Pow2Table[n + 1]

NDigits(a) ==
    LET t == a[Len(a)]
    IN  3 * (Len(a) - 1) + (IF t < 10 THEN 1 ELSE IF t < 100 THEN 2 ELSE 3)

\* the number of bits of a > 0
NBitLen(a) ==
    LET lo == ((NDigits(a) - 1) * 3321) \div 1000
    IN  CHOOSE n \in (lo + 1)..(lo + 5) :
            NLe(NPow2(n - 1), a) /\ NLt(a, NPow2(n))

NIsOdd(a) == a # <<>> /\ a[1] % 2 = 1

F64Mk(neg, m, e) == [neg |-> neg, m |-> m, e |-> e]

\* rounding to nearest, ties to even: m is the quotient cut to 53 bits, c
\* compares what was cut off with half a unit, sticky says more was lost
F64RoundC(neg, e, sticky, m, c) ==
    F64Mk(neg,
          IF c > 0 \/ (c = 0 /\ (sticky \/ NIsOdd(m)))
          THEN NAdd(m, <<1>>) ELSE m,
          e)

F64RoundH(neg, e, sticky, h, half) ==
    F64RoundC(neg, e, sticky, h[1], NCmp(h[2], half))

F64RoundS(neg, k, d, s) ==
    F64RoundH(neg, s - k, d[2] # <<>>, NDivMod(d[1], NPow2(s)), NPow2(s - 1))

F64RoundD(neg, k, d) == F64RoundS(neg, k, d, NBitLen(d[1]) - 53)

\* num * 2^k / den has 55 or 56 bits
F64RoundK(neg, num, den, k) ==
    F64RoundD(neg, k, NDivMod(IF k > 0 THEN NMul(num, NPow2(k)) ELSE num,
                              IF k < 0 THEN NMul(den, NPow2(-k)) ELSE den))

\* the float64 nearest to num / den, for num > 0 and den > 0
F64Round(neg, num, den) ==
    F64RoundK(neg, num, den, 55 - (NBitLen(num) - NBitLen(den)))

\* float64(x) for an int64 x # 0
F64FromInt64(x) == F64Round(x.neg, x.mag, <<1>>)

F64Quo(f, g) ==
    F64Round(f.neg # g.neg,
             IF f.e > g.e THEN NMul(f.m, NPow2(f.e - g.e)) ELSE f.m,
             IF g.e > f.e THEN NMul(g.m, NPow2(g.e - f.e)) ELSE g.m)

F64Mul(f, g) ==
    F64Round(f.neg # g.neg,
             IF f.e + g.e > 0 THEN NMul(NMul(f.m, g.m), NPow2(f.e + g.e))
             ELSE NMul(f.m, g.m),
             IF f.e + g.e < 0 THEN NPow2(-(f.e + g.e)) ELSE <<1>>)

\* the integer part of f
F64Trunc(f) ==
    ZMk(f.neg, IF f.e >= 0 THEN NMul(f.m, NPow2(f.e))
               ELSE NDivMod(f.m, NPow2(-f.e))[1])

\* int64 of an integer that may lie outside int64: the conversion of a value
\* outside int64 is implementation dependent (amd64 yields the smallest
\* int64, arm64 saturates)
F64Convert(t) == IF InI64(t) THEN {t} ELSE {MinInt64, MaxInt64}

\* int64(f)
F64ToInt64Results(f) == F64Convert(F64Trunc(f))

(***************************************************************************)
(* The multiplication kernel.  A state of the kernel is the running        *)
(* result, whether the kernel is still on its success path, and whether    *)
(* an int64 operation so far has wrapped.                                  *)
(***************************************************************************)
MulSt(ok, result, ovf) == [ok |-> ok, result |-> result, ovf |-> ovf]

\* if z > maxInt { return 0, false }; result = z * scale
mulIntScale(z, o) ==
    IF ZGt(z, maxInt) THEN MulSt(FALSE, Z0, o)
    ELSE MulSt(TRUE, I64Mul(z, scale), o \/ OvfMul(z, scale))

\* x_int * y_int
mulIntPart(x_int, y_int) ==
    IF x_int # Z0 /\ y_int # Z0
    THEN mulIntScale(I64Mul(x_int, y_int), OvfMul(x_int, y_int))
    ELSE MulSt(TRUE, Z0, FALSE)

\* result <= lim, with lim = maxIntInFixed - p
mulAccumulateTo(st, p, o, lim) ==
    IF ZLe(st.result, lim)
    THEN MulSt(TRUE, I64Add(st.result, p), st.ovf \/ o \/ OvfAdd(st.result, p))
    ELSE MulSt(FALSE, Z0, st.ovf \/ o)

\* if result <= maxIntInFixed - p { result += p } else { return 0, false }
mulAccumulate(st, p, o) ==
    mulAccumulateTo(st, p, o \/ OvfSub(maxIntInFixed, p),
                    I64Sub(maxIntInFixed, p))

\* s += q, for q = p1 / 1000_000 + p2 / scale
mulFracAdd(st, s, q, o) == mulAccumulate(st, I64Add(s, q), o \/ OvfAdd(s, q))

mulFracSum(st, s, q1, q2, o) ==
    mulFracAdd(st, s, I64Add(q1, q2), o \/ OvfAdd(q1, q2))

\* the sum of the two quotients with the remainders dropped
mulFracCheckLossy(st, s, p1, p2, o) ==
    mulFracSum(st, s, I64Quo(p1, million), I64Quo(p2, scale), o)

\* if p1 % 1000_000 != 0 || p2 % scale != 0 { return 0, false }
mulFracCheck(st, s, p1, p2, o) ==
    IF I64Rem(p1, million) # Z0 \/ I64Rem(p2, scale) # Z0
    THEN MulSt(FALSE, Z0, st.ovf \/ o)
    ELSE mulFracSum(st, s, I64Quo(p1, million), I64Quo(p2, scale), o)

\* p1 := x_fractional_a * y_fractional_b + x_fractional_b * y_fractional_a
mulFracLow(st, s, t1, t2, p2, o) ==
    mulFracCheck(st, s, I64Add(t1, t2), p2, o \/ OvfAdd(t1, t2))

mulFracSplit(st, x_fractional_a, x_fractional_b, y_fractional_a, y_fractional_b) ==
    IF x_fractional_b # Z0 \/ y_fractional_b # Z0
    THEN mulFracLow(st,
                    I64Mul(x_fractional_a, y_fractional_a),
                    I64Mul(x_fractional_a, y_fractional_b),
                    I64Mul(x_fractional_b, y_fractional_a),
                    I64Mul(x_fractional_b, y_fractional_b),
                    \/ OvfMul(x_fractional_a, y_fractional_a)
                    \/ OvfMul(x_fractional_a, y_fractional_b)
                    \/ OvfMul(x_fractional_b, y_fractional_a)
                    \/ OvfMul(x_fractional_b, y_fractional_b))
    ELSE mulAccumulate(st, I64Mul(x_fractional_a, y_fractional_a),
                       OvfMul(x_fractional_a, y_fractional_a))

\* x_fractional * y_fractional
mulFracPart(st, x_fractional, y_fractional) ==
    IF st.ok /\ x_fractional # Z0 /\ y_fractional # Z0
    THEN mulFracSplit(st,
                      I64Quo(x_fractional, million),
                      I64Rem(x_fractional, million),
                      I64Quo(y_fractional, million),
                      I64Rem(y_fractional, million))
    ELSE st

\* x_int * y_fractional and x_fractional * y_int
mulCrossPart(st, u, v) ==
    IF st.ok /\ u # Z0 /\ v # Z0
    THEN mulAccumulate(st, I64Mul(u, v), OvfMul(u, v))
    ELSE st

\* if negative { result *= -1 }
mulSign(st, negative, o) ==
    IF ~st.ok THEN MulSt(FALSE, Z0, o \/ st.ovf)
    ELSE IF negative
    THEN MulSt(TRUE, I64Neg(st.result), o \/ st.ovf \/ OvfNeg(st.result))
    ELSE MulSt(TRUE, st.result, o \/ st.ovf)

\* the four partial products in the order of the source
mulParts(x_int, x_fractional, y_int, y_fractional) ==
    mulCrossPart(
        mulCrossPart(
            mulFracPart(mulIntPart(x_int, y_int), x_fractional, y_fractional),
            x_int, y_fractional),
        x_fractional, y_int)

\* the kernel after the signs are removed
mulAbs(x, y, negative, o) ==
    mulSign(mulParts(I64Quo(x, scale), I64Rem(x, scale),
                     I64Quo(y, scale), I64Rem(y, scale)),
            negative, o)

mulTraced(x, y) ==
    IF x = Z0 \/ y = Z0 THEN MulSt(TRUE, Z0, FALSE)
    ELSE mulAbs(IF x.neg THEN I64Neg(x) ELSE x,
                IF y.neg THEN I64Neg(y) ELSE y,
                x.neg # y.neg,
                (x.neg /\ OvfNeg(x)) \/ (y.neg /\ OvfNeg(y)))

mulResult(st) == <<st.result, st.ok>>

\* func mul(x, y int64) (int64, bool)
mul(x, y) == mulResult(mulTraced(x, y))

(***************************************************************************)
(* The division kernel.                                                    *)
(***************************************************************************)
\* the candidates for z := int64(fz * scale); a division by zero gives an
\* infinite fz
divCandidates(x, y) ==
    IF y = Z0 THEN {MinInt64, MaxInt64}
    ELSE F64ToInt64Results(F64Mul(F64Quo(F64FromInt64(x), F64FromInt64(y)),
                                  F64Mk(FALSE, scale.mag, 0)))

\* a candidate accepted as soon as mul succeeds
divCheckMulAny(x, z, m) == IF m[2] THEN <<z, TRUE>> ELSE <<Z0, FALSE>>

\* if xx, ok := mul(y, z); ok && x == xx { return z, true }
divCheckMul(x, z, m) ==
    IF m[2] /\ x = m[1] THEN <<z, TRUE>> ELSE <<Z0, FALSE>>

\* the check of a candidate
divCheck(x, y, z) == divCheckMul(x, z, mul(y, z))

\* a zero dividend accepted for every divisor
divZeroAlways(y) == {<<Z0, TRUE>>}

\* if x == 0 { return 0, y != 0 }
divZero(y) == {<<Z0, y # Z0>>}

\* func div(x, y int64) (int64, bool): the set of its possible results
div(x, y) ==
    IF x = Z0 THEN divZero(y)
    ELSE {divCheck(x, y, z) : z \in divCandidates(x, y)}

(***************************************************************************)
(* Text: a string or a byte slice is a sequence of one-character strings.  *)
(***************************************************************************)
DigitChars == <<"0", "1", "2", "3", "4", "5", "6", "7", "8", "9">>
IsDigit(c) == \E d \in 1..10 : DigitChars[d] = c
DigitVal(c) == (CHOOSE d \in 1..10 : DigitChars[d] = c) - 1
DigitChar(d) == DigitChars[d + 1]

\* the digit of weight 10^j of a natural
NDigitAt(a, j) ==
    LET l == NAt(a, (j \div 3) + 1)
    IN  IF j % 3 = 0 THEN l % 10
        ELSE IF j % 3 = 1 THEN (l \div 10) % 10
        ELSE l \div 100

\* big.Int.String() of a magnitude
NText(a) ==
    IF a = <<>> THEN <<"0">>
    ELSE NSeq([i \in 1..NDigits(a) |-> DigitChar(NDigitAt(a, NDigits(a) - i))])

\* the digit of weight 10^j of a digit string
TextDigitAt(s, j) == IF j < Len(s) THEN DigitVal(s[Len(s) - j]) ELSE 0

\* the natural a digit string denotes
NFromText(s) ==
    NTrim(NSeq([l \in 1..((Len(s) + 2) \div 3) |->
                   TextDigitAt(s, 3 * (l - 1))
                     + 10 * TextDigitAt(s, 3 * (l - 1) + 1)
                     + 100 * TextDigitAt(s, 3 * (l - 1) + 2)]))

Repeat(c, n) == NSeq([i \in 1..n |-> c])

\* v with one pair of surrounding double quotes removed
Unquote(v) ==
    IF Len(v) > 2 /\ v[1] = "\"" /\ v[Len(v)] = "\""
    THEN SubSeq(v, 2, Len(v) - 1) ELSE v

(***************************************************************************)
(* The fallback engine (github.com/shopspring/decimal): a value is         *)
(* value * 10^exp with an arbitrary-precision coefficient.  Its results    *)
(* are given for the calls the package makes.                              *)
(***************************************************************************)
DivisionPrecision == 16

decNew(value, exp) == [value |-> value, exp |-> exp]
decNewFromInt(x) == decNew(x, 0)
decZero == decNew(Z0, 0)

\* the coefficient of d at the exponent exp <= d.exp
decRescale(d, exp) == ZMk(d.value.neg, NMul(d.value.mag, NPow10(d.exp - exp)))

decMinExp(d, d2) == IF d.exp < d2.exp THEN d.exp ELSE d2.exp

decAdd(d, d2) ==
    decNew(ZAdd(decRescale(d, decMinExp(d, d2)), decRescale(d2, decMinExp(d, d2))),
           decMinExp(d, d2))

decNeg(d) == decNew(ZNeg(d.value), d.exp)
decCopy(d) == decNew(d.value, d.exp)
decMul(d, d2) == decNew(ZMul(d.value, d2.value), d.exp + d2.exp)

decCmp(d, d2) ==
    ZCmp(decRescale(d, decMinExp(d, d2)), decRescale(d2, decMinExp(d, d2)))

\* the quotient qr[1] of the scaled coefficients rounded half away from
\* zero: up when twice the remainder qr[2] reaches the divisor bb
decDivRoundQ(neg, places, bb, qr) ==
    <<decNew(ZMk(neg, IF NLe(bb, NMulSmall(qr[2], 2))
                      THEN NAdd(qr[1], <<1>>) ELSE qr[1]),
             -places)>>

decDivRoundS(neg, places, aa, bb) ==
    decDivRoundQ(neg, places, bb, NDivMod(aa, bb))

decDivRoundE(d, d2, places, e) ==
    decDivRoundS(d.value.neg # d2.value.neg, places,
                 IF e > 0 THEN NMul(d.value.mag, NPow10(e)) ELSE d.value.mag,
                 IF e < 0 THEN NMul(d2.value.mag, NPow10(-e)) ELSE d2.value.mag)

\* d / d2 rounded half away from zero to `places` fractional digits; the
\* engine panics on a zero divisor, which is the empty result here
decDivRound(d, d2, places) ==
    IF d2.value = Z0 THEN <<>>
    ELSE decDivRoundE(d, d2, places, d.exp - d2.exp + places)

\* strings.TrimRight(s, "0")
decTrimZeros(s) ==
    IF \A i \in 1..Len(s) : s[i] = "0" THEN <<>>
    ELSE SubSeq(s, 1, CHOOSE i \in 1..Len(s) :
                          s[i] # "0" /\ \A k \in (i + 1)..Len(s) : s[k] = "0")

decJoin(intPart, fractionalPart) ==
    IF fractionalPart = <<>> THEN intPart
    ELSE intPart \o <<".">> \o fractionalPart

\* the digits str of the coefficient with the point n places from the right
decPoint(str, n) ==
    decJoin(IF Len(str) > n THEN SubSeq(str, 1, Len(str) - n) ELSE <<"0">>,
            decTrimZeros(IF Len(str) > n
                         THEN SubSeq(str, Len(str) - n + 1, Len(str))
                         ELSE Repeat("0", n - Len(str)) \o str))

\* Decimal.String() of the engine
decString(d) ==
    (IF d.value.neg THEN <<"-">> ELSE <<>>)
      \o (IF d.exp >= 0 THEN NText(decRescale(d, 0).mag)
          ELSE decPoint(NText(d.value.mag), -d.exp))

decParseDigits(neg, digits, exp) ==
    IF digits = <<>> \/ \E i \in 1..Len(digits) : ~IsDigit(digits[i])
    THEN <<>>
    ELSE <<decNew(ZMk(neg, NFromText(digits)), exp)>>

decParseSign(intString, exp) ==
    IF intString # <<>> /\ intString[1] \in {"+", "-"}
    THEN decParseDigits(intString[1] = "-", Tail(intString), exp)
    ELSE decParseDigits(FALSE, intString, exp)

\* pIndex is the index of the '.', 0 for none
decParsePoint(value, pIndex) ==
    IF pIndex = 0 THEN decParseSign(value, 0)
    ELSE decParseSign(SubSeq(value, 1, pIndex - 1)
                        \o SubSeq(value, pIndex + 1, Len(value)),
                      -(Len(value) - pIndex))

\* decimal.NewFromString for a text without an exponent part: <<d>>, or
\* the empty sequence for an error
decNewFromString(value) ==
    IF Cardinality({i \in 1..Len(value) : value[i] = "."}) > 1 THEN <<>>
    ELSE decParsePoint(value,
                       IF \A i \in 1..Len(value) : value[i] # "." THEN 0
                       ELSE CHOOSE i \in 1..Len(value) : value[i] = ".")

(***************************************************************************)
(* The Decimal value: the struct with its fallback pointer followed, so    *)
(* the field holds <<>> for nil and <<d>> for a pointer to d.              *)
(***************************************************************************)
Decimal(fixed, fallback) == [fixed |-> fixed, fallback |-> fallback]
Fast(fixed) == Decimal(fixed, <<>>)
Zero == Fast(Z0)
IsOptimized(d) == d.fallback = <<>>

newFromDecimal(d) == Decimal(Z0, <<d>>)

asFallback(d) ==
    IF d.fallback = <<>> THEN decNew(d.fixed, -precision) ELSE d.fallback[1]

(***************************************************************************)
(* The parser.                                                             *)
(***************************************************************************)
ParseFail == <<Z0, FALSE>>

\* remove trailing '0' if any, when v holds a '.'
parseTrimZeros(v) ==
    IF Len(v) > 1 /\ v[Len(v)] = "0" /\ \E i \in 1..Len(v) : v[i] = "."
    THEN SubSeq(v, 1, CHOOSE i \in 1..Len(v) :
                          v[i] # "0" /\ \A k \in (i + 1)..Len(v) : v[k] = "0")
    ELSE v

\* remove trailing '.' if any
parseTrimPoint(v) ==
    IF Len(v) > 1 /\ v[Len(v)] = "." THEN SubSeq(v, 1, Len(v) - 1) ELSE v

\* the sign switch: <<rest of v, negative>>
parseSign(v) ==
    IF Len(v) > 1 /\ v[1] = "+" THEN <<SubSeq(v, 2, Len(v)), FALSE>>
    ELSE IF Len(v) > 1 /\ v[1] = "-" THEN <<SubSeq(v, 2, Len(v)), TRUE>>
    ELSE <<v, FALSE>>

\* fixed after the loop body ran over the digits of s: fixed *= 10 and
\* fixed += c - '0' for each of them
parseAccumulate(s) == Wrap64(ZMk(FALSE, NFromText(s)))

\* the sign dropped
parseNegateNever(fixed, negative) == fixed

\* if negative { return -fixed } else { return fixed }
parseNegate(fixed, negative) == IF negative THEN I64Neg(fixed) ELSE fixed

\* the loop over the fractional digits s, entered with the digits v before
\* the '.' accumulated
parseFraction(v, s) ==
    IF \E j \in 1..Len(s) : ~IsDigit(s[j]) THEN ParseFail
    ELSE <<parseAccumulate(v \o s), TRUE>>

\* fixed *= pow10Table[12-len(s)], for the result r of the loop over s
parseScale(r, n, negative) ==
    IF ~r[2] THEN ParseFail
    ELSE <<parseNegate(I64Mul(r[1], pow10Table[12 - n]), negative), TRUE>>

\* the '.' at index i of v and the fractional part s after it
parsePoint(v, i, negative, s) ==
    IF Len(s) > 12 THEN ParseFail
    ELSE parseScale(parseFraction(SubSeq(v, 1, i - 1), s), Len(s), negative)

\* no fractional part: -fixed * scale or fixed * scale
parseInteger(v, negative) ==
    <<I64Mul(parseNegate(parseAccumulate(v), negative), scale), TRUE>>

\* the index of the first byte of v that is no digit, Len(v) + 1 for none
parseFirstNonDigit(v) ==
    IF \A k \in 1..Len(v) : IsDigit(v[k]) THEN Len(v) + 1
    ELSE CHOOSE k \in 1..Len(v) :
             ~IsDigit(v[k]) /\ \A j \in 1..(k - 1) : IsDigit(v[j])

\* the loop over v, whose first byte that is no digit is at i
parseLoop(v, negative, i) ==
    IF \E k \in 1..(i - 1) : ZGe(parseAccumulate(SubSeq(v, 1, k)), maxInt)
    THEN ParseFail
    ELSE IF i > Len(v) THEN parseInteger(v, negative)
    ELSE IF v[i] = "." THEN parsePoint(v, i, negative, SubSeq(v, i + 1, Len(v)))
    ELSE ParseFail

parseDigits(v, negative) == parseLoop(v, negative, parseFirstNonDigit(v))

\* if len(v) == 0 { return 0, false }
parseSigned(sg) ==
    IF Len(sg[1]) = 0 THEN ParseFail ELSE parseDigits(sg[1], sg[2])

\* if len(v) > 21 { return 0, false }
parseUnquoted(v) ==
    IF Len(v) > 21 THEN ParseFail
    ELSE parseSigned(parseSign(parseTrimPoint(parseTrimZeros(v))))

\* func parseFixed(v) (int64, bool)
parseFixed(v) == parseUnquoted(Unquote(v))

(***************************************************************************)
(* The formatter.  The buffer is the array s [21]byte with the indices     *)
(* start and end; ok is false once an index outside the array or a slice   *)
(* outside it was used (a panic in the program).                           *)
(***************************************************************************)
BufLen == 21
NoByte == "NUL"

Buf(s, start, end, ok) == [s |-> s, start |-> start, end |-> end, ok |-> ok]

\* s[i] = c
BufPut(buf, i, c) ==
    IF i >= 0 /\ i < BufLen
    THEN Buf([buf.s EXCEPT ![i + 1] = c], buf.start, buf.end, buf.ok)
    ELSE Buf(buf.s, buf.start, buf.end, FALSE)

BufSliceOk(buf) ==
    buf.ok /\ 0 <= buf.start /\ buf.start <= buf.end /\ buf.end <= BufLen

\* string(s[start:end])
BufSlice(buf) ==
    IF BufSliceOk(buf) THEN SubSeq(buf.s, buf.start + 1, buf.end) ELSE <<>>

ZDigit(z) == DigitChar(ZToInt(z))
Ten == ZInt(10)

\* uint64(x) of an int64 x
U64(x) == IF x.neg THEN ZAdd(x, TwoTo64) ELSE x

\* the integer part, right to left from s[start]
RECURSIVE formatIntegerLoop(_, _)
formatIntegerLoop(buf, integerPart) ==
    IF ZGe(integerPart, Ten)
    THEN formatIntegerLoop(
             [BufPut(buf, buf.start, ZDigit(ZRem(integerPart, Ten)))
                 EXCEPT !.start = buf.start - 1],
             ZQuo(integerPart, Ten))
    ELSE BufPut(buf, buf.start, ZDigit(integerPart))

formatInteger(buf, integerPart) ==
    IF integerPart = Z0 THEN BufPut(buf, buf.start, "0")
    ELSE formatIntegerLoop(buf, integerPart)

\* for j := i - 1; j > 8; j-- { s[j] = ...; fractionalPart /= 10 }
RECURSIVE formatFractionFill(_, _, _)
formatFractionFill(buf, j, fractionalPart) ==
    IF j > 8
    THEN formatFractionFill(BufPut(buf, j, ZDigit(ZRem(fractionalPart, Ten))),
                            j - 1, ZQuo(fractionalPart, Ten))
    ELSE buf

\* for i := 20; i > 8; i-- { is := fractionalPart % 10; ... }
RECURSIVE formatFractionScan(_, _, _)
RECURSIVE formatFractionDigit(_, _, _, _)
formatFractionScan(buf, i, fractionalPart) ==
    IF i > 8
    THEN formatFractionDigit(buf, i, ZRem(fractionalPart, Ten),
                             ZQuo(fractionalPart, Ten))
    ELSE buf

formatFractionDigit(buf, i, is, fractionalPart) ==
    IF is # Z0
    THEN formatFractionFill([BufPut(buf, i, ZDigit(is)) EXCEPT !.end = i + 1],
                            i - 1, fractionalPart)
    ELSE formatFractionScan(buf, i - 1, fractionalPart)

formatFraction(buf, fractionalPart) ==
    IF ZGt(fractionalPart, Z0)
    THEN formatFractionScan(BufPut(buf, 8, "."), 20, fractionalPart)
    ELSE buf

\* the sign written over s[start]
formatSignInPlace(buf, fixed) ==
    IF ZLt(fixed, Z0) THEN BufPut(buf, buf.start, "-") ELSE buf

formatSign(buf, fixed) ==
    IF ZLt(fixed, Z0)
    THEN BufPut([buf EXCEPT !.start = buf.start - 1], buf.start - 1, "-")
    ELSE buf

\* integerPart := ufixed / scale; fractionalPart := ufixed % scale
formatUnsigned(fixed, ufixed) ==
    formatSign(
        formatFraction(
            formatInteger(Buf(Repeat(NoByte, BufLen), 7, 8, TRUE),
                          ZQuo(ufixed, scale)),
            ZRem(ufixed, scale)),
        fixed)

\* the buffer String() fills for a fast value outside the cache
formatFixed(fixed) ==
    formatUnsigned(fixed, IF ZGe(fixed, Z0) THEN U64(fixed)
                          ELSE U64(I64Mul(fixed, ZInt(-1))))

(***************************************************************************)
(* The cache of the values -1000.00 .. 1000.00.                            *)
(***************************************************************************)
cacheSize == 200001
cacheOffset == 100000

F64Eq(f, g) ==
    /\ f.neg = g.neg
    /\ NMul(f.m, NPow2(IF f.e > g.e THEN f.e - g.e ELSE 0))
         = NMul(g.m, NPow2(IF g.e > f.e THEN g.e - f.e ELSE 0))

\* the integer nearest to num / den
F64Nearest(num, den) ==
    NDivMod(NAdd(NMulSmall(num, 2), den), NMulSmall(den, 2))[1]

\* the integer nearest to |f| * 10^p
F64Scaled(f, p) ==
    F64Nearest(NMul(f.m, NMul(NPow10(p),
                              IF f.e > 0 THEN NPow2(f.e) ELSE <<1>>)),
               IF f.e < 0 THEN NPow2(-f.e) ELSE <<1>>)

\* n / 10^p reads back as f
F64ReadsBack(f, p, n) ==
    n # <<>> /\ F64Eq(F64Round(f.neg, n, NPow10(p)), f)

\* the least number of fractional digits with which f reads back as f
RECURSIVE F64ShortestPlaces(_, _)
F64ShortestPlaces(f, p) ==
    IF F64ReadsBack(f, p, F64Scaled(f, p)) THEN p
    ELSE F64ShortestPlaces(f, p + 1)

FormatFloatPlaces(f, p) == decString(decNew(ZMk(f.neg, F64Scaled(f, p)), -p))

\* strconv.FormatFloat(f, 'f', -1, 64) of a finite f # 0
FormatFloatF(f) == FormatFloatPlaces(f, F64ShortestPlaces(f, 0))

\* the cache entry init() stores at index i
cacheEntry(i) ==
    IF i - cacheOffset = 0 THEN <<"0">>
    ELSE FormatFloatF(F64Quo(F64FromInt64(ZInt(i - cacheOffset)),
                             F64FromInt64(ZInt(100))))

\* the arrays init() fills; an index outside them has no value (the program
\* panics)
valueCache(i) == CASE i >= 0 /\ i < cacheSize -> cacheEntry(i)
stringCache(i) == CASE i >= 0 /\ i < cacheSize -> cacheEntry(i)

\* a cache hit for every value of the range
cacheHitRange(fixed) ==
    ZLe(fixed, a1000InFixed) /\ ZGe(fixed, aNeg1000InFixed)

\* the condition of a cache hit
cacheHit(fixed) ==
    /\ ZLe(fixed, a1000InFixed)
    /\ ZGe(fixed, aNeg1000InFixed)
    /\ I64Rem(fixed, aCentInFixed) = Z0

cacheIndex(fixed) == ZToInt(I64Quo(fixed, aCentInFixed)) + cacheOffset

\* func (d Decimal) String() string
String(d) ==
    IF d.fallback = <<>>
    THEN IF cacheHit(d.fixed) THEN stringCache(cacheIndex(d.fixed))
         ELSE BufSlice(formatFixed(d.fixed))
    ELSE decString(d.fallback[1])

\* func (d Decimal) Value() (driver.Value, error)
Value(d) ==
    IF d.fallback = <<>>
    THEN IF cacheHit(d.fixed) THEN valueCache(cacheIndex(d.fixed))
         ELSE String(d)
    ELSE decString(d.fallback[1])

(***************************************************************************)
(* The operations of Decimal.  An operation that can fail returns a pair   *)
(* <<result, err>> with err true for a non-nil error; an operation that    *)
(* can panic returns <<d>>, or <<>> for the panic.                         *)
(***************************************************************************)
\* NewFromInt with the bounds compared strictly
NewFromIntStrict(x) ==
    IF ZGt(x, minInt) /\ ZLt(x, maxInt) THEN Fast(I64Mul(x, scale))
    ELSE newFromDecimal(decNewFromInt(x))

\* func NewFromInt(x int64) Decimal
NewFromInt(x) ==
    IF ZGe(x, minInt) /\ ZLe(x, maxInt) THEN Fast(I64Mul(x, scale))
    ELSE newFromDecimal(decNewFromInt(x))

\* d, err := decimal.NewFromString(value); if err != nil { return Zero, err }
NewFromStringFallback(d) ==
    IF d = <<>> THEN <<Zero, TRUE>> ELSE <<newFromDecimal(d[1]), FALSE>>

\* if fixed, ok := parseFixed(value); ok { return Decimal{fixed: fixed}, nil }
NewFromStringParsed(value, p) ==
    IF p[2] THEN <<Fast(p[1]), FALSE>>
    ELSE NewFromStringFallback(decNewFromString(value))

\* func NewFromString(value string) (Decimal, error)
NewFromString(value) == NewFromStringParsed(value, parseFixed(value))

\* Add without the range check
AddUnchecked(d, d2) ==
    IF d.fallback = <<>> /\ d2.fallback = <<>>
    THEN Fast(I64Add(d.fixed, d2.fixed))
    ELSE newFromDecimal(decAdd(asFallback(d), asFallback(d2)))

\* func (d Decimal) Add(d2 Decimal) Decimal
Add(d, d2) ==
    IF /\ d.fallback = <<>>
       /\ d2.fallback = <<>>
       /\ \/ ZGt(d2.fixed, Z0) /\ ZLe(d.fixed, I64Sub(maxIntInFixed, d2.fixed))
          \/ ~ZGt(d2.fixed, Z0) /\ ZGe(d.fixed, I64Sub(minIntInFixed, d2.fixed))
    THEN Fast(I64Add(d.fixed, d2.fixed))
    ELSE newFromDecimal(decAdd(asFallback(d), asFallback(d2)))

\* func (d Decimal) Neg() Decimal
Neg(d) ==
    IF d.fallback = <<>> THEN Fast(I64Neg(d.fixed))
    ELSE newFromDecimal(decNeg(d.fallback[1]))

\* func (d Decimal) Sub(d2 Decimal) Decimal
Sub(d, d2) == Add(d, Neg(d2))

\* if fixed, ok := mul(d.fixed, d2.fixed); ok { return Decimal{fixed: fixed} }
MulWith(d, d2, r) ==
    IF r[2] THEN Fast(r[1])
    ELSE newFromDecimal(decMul(asFallback(d), asFallback(d2)))

\* func (d Decimal) Mul(d2 Decimal) Decimal
Mul(d, d2) ==
    IF d.fallback = <<>> /\ d2.fallback = <<>>
    THEN MulWith(d, d2, mul(d.fixed, d2.fixed))
    ELSE newFromDecimal(decMul(asFallback(d), asFallback(d2)))

DivRoundResult(q) == IF q = <<>> THEN <<>> ELSE <<newFromDecimal(q[1])>>

\* func (d Decimal) DivRound(d2 Decimal, precision int32) Decimal
DivRound(d, d2, places) ==
    DivRoundResult(decDivRound(asFallback(d), asFallback(d2), places))

\* Div with the kernel's result r
DivWith(d, d2, r) ==
    IF r[2] THEN <<Fast(r[1])>> ELSE DivRound(d, d2, DivisionPrecision)

\* func (d Decimal) Div(d2 Decimal) Decimal: the set of its possible results
Div(d, d2) ==
    IF d.fallback = <<>> /\ d2.fallback = <<>>
    THEN {DivWith(d, d2, r) : r \in div(d.fixed, d2.fixed)}
    ELSE {DivRound(d, d2, DivisionPrecision)}

\* func (d Decimal) Copy() Decimal
Copy(d) ==
    IF d.fallback = <<>> THEN Fast(d.fixed)
    ELSE newFromDecimal(decCopy(d.fallback[1]))

(***************************************************************************)
(* Scanning and unmarshalling.  A scanned value is nil or a string; the    *)
(* fallback path of Scan and UnmarshalJSON stores the new pointer and      *)
(* leaves d.fixed as it was.                                               *)
(***************************************************************************)
NilValue == [isNil |-> TRUE, text |-> <<>>]
StringValue(t) == [isNil |-> FALSE, text |-> t]

NullText == <<"n", "u", "l", "l">>

\* decimal.Decimal.Scan of the engine, for nil or a string: <<d>> or error
decScan(value) ==
    IF value.isNil THEN <<>> ELSE decNewFromString(Unquote(value.text))

\* decimal.Decimal.UnmarshalJSON of the engine: "null" leaves the zero value
decUnmarshalJSON(decimalBytes) ==
    IF decimalBytes = NullText THEN <<decZero>>
    ELSE decNewFromString(Unquote(decimalBytes))

\* d.fixed = fixed; d.fallback = nil
FallbackNil(p) == <<Fast(p[1]), FALSE>>

\* the fallback path of Scan with the receiver zeroed on an error
FallbackSetOrZero(d, f) ==
    IF f = <<>> THEN <<Zero, TRUE>> ELSE <<Decimal(d.fixed, f), FALSE>>

\* d.fallback = &fallback, or the error; d.fixed stays
FallbackSet(d, f) ==
    IF f = <<>> THEN <<d, TRUE>> ELSE <<Decimal(d.fixed, f), FALSE>>

\* d.fixed = ddd.fixed; d.fallback = ddd.fallback, or the error
FallbackNew(d, dd) ==
    IF dd = <<>> THEN <<d, TRUE>> ELSE <<newFromDecimal(dd[1]), FALSE>>

\* the fast path of Scan without the assignment d.fallback = nil
ScanParsedKeepingFallback(d, value, p) ==
    IF p[2] THEN <<Decimal(p[1], d.fallback), FALSE>>
    ELSE FallbackSet(d, decScan(value))

ScanParsed(d, value, p) ==
    IF p[2] THEN FallbackNil(p) ELSE FallbackSet(d, decScan(value))

\* func (d *Decimal) Scan(value interface{}) error
Scan(d, value) ==
    ScanParsed(d, value,
               IF value.isNil THEN ParseFail ELSE parseFixed(value.text))

UnmarshalJSONParsed(d, decimalBytes, p) ==
    IF p[2] THEN FallbackNil(p)
    ELSE FallbackSet(d, decUnmarshalJSON(decimalBytes))

\* func (d *Decimal) UnmarshalJSON(decimalBytes []byte) error
UnmarshalJSON(d, decimalBytes) ==
    UnmarshalJSONParsed(d, decimalBytes, parseFixed(decimalBytes))

UnmarshalTextParsed(d, text, p) ==
    IF p[2] THEN FallbackNil(p) ELSE FallbackNew(d, decNewFromString(text))

\* func (d *Decimal) UnmarshalText(text []byte) error
UnmarshalText(d, text) == UnmarshalTextParsed(d, text, parseFixed(text))

\* NullDecimal
NullDecimal(d, valid) == [Decimal |-> d, Valid |-> valid]

\* d.Valid = true; return d.Decimal.Scan(value)
NullDecimalScanned(r) == <<NullDecimal(r[1], TRUE), r[2]>>

\* func (d *NullDecimal) Scan(value interface{}) error
NullDecimalScan(n, value) ==
    IF value.isNil THEN <<NullDecimal(n.Decimal, FALSE), FALSE>>
    ELSE NullDecimalScanned(Scan(n.Decimal, value))

(***************************************************************************)
(* UnmarshalBinary: data is a sequence of bytes, four bytes of exponent    *)
(* (big endian, two's complement) and the gob encoding of the coefficient  *)
(* (a byte 2 + sign, then the magnitude, big endian).                      *)
(***************************************************************************)
BytesExp(data) ==
    IF data[1] < 128
    THEN ((data[1] * 256 + data[2]) * 256 + data[3]) * 256 + data[4]
    ELSE -((((255 - data[1]) * 256 + (255 - data[2])) * 256
              + (255 - data[3])) * 256 + (255 - data[4])) - 1

RECURSIVE BytesMag(_, _)
BytesMag(data, n) ==
    IF n = 0 THEN <<>>
    ELSE NAdd(NMulSmall(BytesMag(data, n - 1), 256), NFromInt(data[n]))

\* decimal.Decimal.UnmarshalBinary of the engine: <<d>> or error
decUnmarshalBinary(data) ==
    IF Len(data) < 4 THEN <<>>
    ELSE IF Len(data) = 4 THEN <<decNew(Z0, BytesExp(data))>>
    ELSE IF data[5] \div 2 # 1 THEN <<>>
    ELSE <<decNew(ZMk(data[5] % 2 = 1,
                      BytesMag(SubSeq(data, 6, Len(data)), Len(data) - 5)),
                  BytesExp(data))>>

\* func (d *Decimal) UnmarshalBinary(data []byte) error
UnmarshalBinary(d, data) == FallbackNew(d, decUnmarshalBinary(data))


(***************************************************************************)
(* Marshalling.  withoutQuotes is the value of the package variable        *)
(* MarshalJSONWithoutQuotes at the call.                                   *)
(***************************************************************************)
\* if MarshalJSONWithoutQuotes { str = d.String() } else { "\"" + ... }
MarshalJSONText(str, withoutQuotes) ==
    IF withoutQuotes THEN str ELSE <<"\"">> \o str \o <<"\"">>

\* func (d Decimal) MarshalJSON() ([]byte, error)
MarshalJSON(d, withoutQuotes) == MarshalJSONText(String(d), withoutQuotes)

\* func (d Decimal) MarshalText() (text []byte, err error)
MarshalText(d) == String(d)

\* NullDecimal.MarshalJSON that ignores Valid
NullMarshalJSONAlways(n, withoutQuotes) == MarshalJSON(n.Decimal, withoutQuotes)

\* func (d NullDecimal) MarshalJSON() ([]byte, error)
NullMarshalJSON(n, withoutQuotes) ==
    IF ~n.Valid THEN NullText ELSE MarshalJSON(n.Decimal, withoutQuotes)

\* func (d NullDecimal) MarshalText() (text []byte, err error)
NullMarshalText(n) == IF ~n.Valid THEN <<>> ELSE MarshalText(n.Decimal)

\* func (d NullDecimal) Value() (driver.Value, error): <<>> for nil
NullValue(n) == IF ~n.Valid THEN <<>> ELSE <<Value(n.Decimal)>>

\* func (d *NullDecimal) UnmarshalJSON(decimalBytes []byte) error
NullUnmarshalJSON(n, decimalBytes) ==
    IF decimalBytes = NullText THEN <<NullDecimal(n.Decimal, FALSE), FALSE>>
    ELSE NullDecimalScanned(UnmarshalJSON(n.Decimal, decimalBytes))

\* UnmarshalText that sets Valid = true whatever the error
NullUnmarshalTextValid(r) == <<NullDecimal(r[1], TRUE), r[2]>>

\* if err != nil { d.Valid = false; return err }; d.Valid = true
NullUnmarshalTextResult(r) == <<NullDecimal(r[1], ~r[2]), r[2]>>

\* func (d *NullDecimal) UnmarshalText(text []byte) error
NullUnmarshalText(n, text) ==
    IF text = <<>> THEN <<NullDecimal(n.Decimal, FALSE), FALSE>>
    ELSE NullUnmarshalTextResult(UnmarshalText(n.Decimal, text))

(***************************************************************************)
(* The sign of a Decimal.                                                  *)
(***************************************************************************)
\* decimal.Decimal.Sign of the engine
decSign(d) == IF d.value = Z0 THEN 0 ELSE IF d.value.neg THEN -1 ELSE 1

\* decimal.Decimal.Abs of the engine
decAbs(d) == decNew(ZAbs(d.value), d.exp)

\* func (d Decimal) IsNegative() bool
IsNegative(d) ==
    IF d.fallback = <<>> THEN ZLt(d.fixed, Z0) ELSE decSign(d.fallback[1]) < 0

\* IsPositive with zero counted as positive
IsPositiveOrZero(d) ==
    IF d.fallback = <<>> THEN ZGe(d.fixed, Z0) ELSE decSign(d.fallback[1]) >= 0

\* func (d Decimal) IsPositive() bool
IsPositive(d) ==
    IF d.fallback = <<>> THEN ZGt(d.fixed, Z0) ELSE decSign(d.fallback[1]) > 0

\* func (d Decimal) IsZero() bool
IsZero(d) ==
    IF d.fallback = <<>> THEN d.fixed = Z0 ELSE decSign(d.fallback[1]) = 0

\* func (d Decimal) Sign() int
Sign(d) ==
    IF d.fallback = <<>>
    THEN IF ZGt(d.fixed, Z0) THEN 1 ELSE IF ZLt(d.fixed, Z0) THEN -1 ELSE 0
    ELSE decSign(asFallback(d))

\* func (d Decimal) Abs() Decimal
Abs(d) ==
    IF d.fallback = <<>>
    THEN IF ZGe(d.fixed, Z0) THEN d ELSE Fast(I64Neg(d.fixed))
    ELSE newFromDecimal(decAbs(d.fallback[1]))

(***************************************************************************)
(* The coefficient and the exponent of a Decimal.                          *)
(***************************************************************************)
\* decimal.Decimal.Coefficient, CoefficientInt64, Exponent and NumDigits
\* of the engine: the coefficient, its low 64 bits, the exponent and the
\* number of decimal digits of the coefficient
decCoefficient(d) == d.value
decCoefficientInt64(d) == Wrap64(d.value)
decExponent(d) == d.exp
decNumDigits(d) == IF d.value = Z0 THEN 1 ELSE NDigits(d.value.mag)

\* Coefficient giving the integer part of a fast value
CoefficientUnscaled(d) ==
    IF d.fallback = <<>> THEN ZQuo(d.fixed, scale)
    ELSE decCoefficient(asFallback(d))

\* func (d Decimal) Coefficient() *big.Int
Coefficient(d) ==
    IF d.fallback = <<>> THEN d.fixed ELSE decCoefficient(asFallback(d))

\* func (d Decimal) CoefficientInt64() int64
CoefficientInt64(d) ==
    IF d.fallback = <<>> THEN d.fixed ELSE decCoefficientInt64(asFallback(d))

\* func (d Decimal) Exponent() int32
Exponent(d) ==
    IF d.fallback = <<>> THEN -precision ELSE decExponent(d.fallback[1])

\* func (d Decimal) NumDigits() int
NumDigits(d) == decNumDigits(asFallback(d))

(***************************************************************************)
(* New and NewFromDecimal.                                                 *)
(***************************************************************************)
\* the indexes of pow10Table that tryOptNew(value, exp) reads
tryOptNewReads(value, exp) ==
    IF exp >= -12
    THEN IF exp <= 0
         THEN {-exp} \cup
              (IF ZGe(value, I64Mul(minInt, pow10Table[-exp])) /\
                  ZLe(value, I64Mul(maxInt, pow10Table[-exp]))
               THEN {precision + exp} ELSE {})
         ELSE IF exp <= 6
              THEN {exp} \cup
                   (IF ZGe(value, I64Quo(minInt, pow10Table[exp])) /\
                       ZLe(value, I64Quo(maxInt, pow10Table[exp]))
                    THEN {precision + exp} ELSE {})
              ELSE {}
    ELSE {}

\* func tryOptNew(value int64, exp int32) (Decimal, bool)
tryOptNew(value, exp) ==
    IF exp >= -12
    THEN IF exp <= 0
         THEN IF ZGe(value, I64Mul(minInt, pow10Table[-exp])) /\
                 ZLe(value, I64Mul(maxInt, pow10Table[-exp]))
              THEN <<Fast(I64Mul(value, pow10Table[precision + exp])), TRUE>>
              ELSE <<Zero, FALSE>>
         ELSE IF exp <= 6
              THEN IF ZGe(value, I64Quo(minInt, pow10Table[exp])) /\
                      ZLe(value, I64Quo(maxInt, pow10Table[exp]))
                   THEN <<Fast(I64Mul(value, pow10Table[precision + exp])), TRUE>>
                   ELSE <<Zero, FALSE>>
              ELSE <<Zero, FALSE>>
    ELSE <<Zero, FALSE>>

\* func New(value int64, exp int32) Decimal
New(value, exp) ==
    IF tryOptNew(value, exp)[2] THEN tryOptNew(value, exp)[1]
    ELSE newFromDecimal(decNew(value, exp))

\* func NewFromDecimal(d decimal.Decimal) Decimal
NewFromDecimal(d) ==
    IF ~InI64(decCoefficient(d)) THEN newFromDecimal(d)
    ELSE IF tryOptNew(decCoefficientInt64(d), decExponent(d))[2]
         THEN tryOptNew(decCoefficientInt64(d), decExponent(d))[1]
         ELSE newFromDecimal(d)

(***************************************************************************)
(* Rounding: Round, Ceil, Floor and Truncate, and the engine's methods     *)
(* they delegate to.                                                       *)
(***************************************************************************)
ZPow10(n) == ZMk(FALSE, NPow10(n))

\* big.Int.Div and big.Int.Mod for a positive divisor: Euclidean division
ZMod(a, b) == IF ZRem(a, b).neg THEN ZAdd(ZRem(a, b), b) ELSE ZRem(a, b)
ZDiv(a, b) == IF ZRem(a, b).neg THEN ZSub(ZQuo(a, b), Z1) ELSE ZQuo(a, b)

\* decimal.Decimal.rescale of the engine: the value at the exponent exp,
\* truncated toward zero when exp is greater than the exponent of d
decRescaleTo(d, exp) ==
    IF d.exp = exp THEN d
    ELSE IF exp > d.exp
         THEN decNew(ZQuo(d.value, ZPow10(exp - d.exp)), exp)
         ELSE decNew(ZMul(d.value, ZPow10(d.exp - exp)), exp)

\* ret.value plus or minus five, by the sign of ret.value
decRoundHalf(v) == IF v.neg THEN ZSub(v, ZInt(5)) ELSE ZAdd(v, ZInt(5))

\* floor for positives, ceil for negatives
decRoundDiv(v) ==
    IF ZDiv(v, Ten).neg /\ ZMod(v, Ten) # Z0 THEN ZAdd(ZDiv(v, Ten), Z1)
    ELSE ZDiv(v, Ten)

\* decimal.Decimal.Round of the engine
decRound(d, places) ==
    IF d.exp = -places THEN d
    ELSE decNew(decRoundDiv(decRoundHalf(decRescaleTo(d, -places - 1).value)),
                -places)

\* decimal.Decimal.Floor of the engine
decFloor(d) ==
    IF d.exp >= 0 THEN d ELSE decNew(ZDiv(d.value, ZPow10(-d.exp)), 0)

\* decimal.Decimal.Ceil of the engine
decCeil(d) ==
    IF d.exp >= 0 THEN d
    ELSE IF ZMod(d.value, ZPow10(-d.exp)) # Z0
         THEN decNew(ZAdd(ZDiv(d.value, ZPow10(-d.exp)), Z1), 0)
         ELSE decNew(ZDiv(d.value, ZPow10(-d.exp)), 0)

\* decimal.Decimal.Truncate of the engine
decTruncate(d, prec) ==
    IF prec >= 0 /\ -prec > d.exp THEN decRescaleTo(d, -prec) ELSE d

\* Ceil of a fast value with m = d.fixed % scale
CeilFixed(fixed, m) ==
    IF m = Z0 THEN Fast(fixed)
    ELSE IF ZGt(m, Z0) THEN Fast(I64Add(I64Sub(fixed, m), scale))
         ELSE Fast(I64Sub(fixed, m))

\* Ceil narrowing the engine's result back into the fast form
CeilNarrowed(d) ==
    IF d.fallback = <<>> THEN CeilFixed(d.fixed, I64Rem(d.fixed, scale))
    ELSE NewFromDecimal(decCeil(asFallback(d)))

\* func (d Decimal) Ceil() Decimal
Ceil(d) ==
    IF d.fallback = <<>> THEN CeilFixed(d.fixed, I64Rem(d.fixed, scale))
    ELSE newFromDecimal(decCeil(asFallback(d)))

\* Floor of a fast value with m = d.fixed % scale
FloorFixed(fixed, m) ==
    IF m = Z0 THEN Fast(fixed)
    ELSE IF ZGt(m, Z0) THEN Fast(I64Sub(fixed, m))
         ELSE Fast(I64Sub(I64Sub(fixed, m), scale))

\* func (d Decimal) Floor() Decimal
Floor(d) ==
    IF d.fallback = <<>> THEN FloorFixed(d.fixed, I64Rem(d.fixed, scale))
    ELSE newFromDecimal(decFloor(asFallback(d)))

\* Round of a fast value with s = pow10Table[precision-places] and
\* m = d.fixed % s
RoundFixed(d, s, m) ==
    IF m = Z0 THEN d
    ELSE IF ZGt(m, Z0)
         THEN IF ZGe(I64Mul(m, ZInt(2)), s)
              THEN Fast(I64Add(I64Sub(d.fixed, m), s))
              ELSE Fast(I64Sub(d.fixed, m))
         ELSE IF ZGe(I64Mul(I64Neg(m), ZInt(2)), s)
              THEN Fast(I64Sub(I64Sub(d.fixed, m), s))
              ELSE Fast(I64Sub(d.fixed, m))

\* func (d Decimal) Round(places int32) Decimal
Round(d, places) ==
    IF d.fallback = <<>> /\ places >= precision THEN d
    ELSE IF d.fallback = <<>> /\ places >= 0
         THEN RoundFixed(d, pow10Table[precision - places],
                         I64Rem(d.fixed, pow10Table[precision - places]))
         ELSE newFromDecimal(decRound(asFallback(d), places))

\* func (d Decimal) Truncate(precision int32) Decimal: <<>> when the index
\* 12-precision is outside pow10Table and the call panics
Truncate(d, prec) ==
    IF d.fallback = <<>>
    THEN IF (12 - prec) \notin DOMAIN pow10Table THEN <<>>
         ELSE <<Fast(I64Mul(I64Quo(d.fixed, pow10Table[12 - prec]),
                            pow10Table[12 - prec]))>>
    ELSE <<newFromDecimal(decTruncate(asFallback(d), prec))>>

(***************************************************************************)
(* The internal state of a Decimal.                                        *)
(***************************************************************************)
\* func (d Decimal) GetFixed() int64
GetFixed(d) == d.fixed

\* func (d Decimal) GetFallback() *decimal.Decimal
GetFallback(d) == d.fallback

(***************************************************************************)
(* Comparison.                                                             *)
(***************************************************************************)
\* func (d Decimal) Cmp(d2 Decimal) int
Cmp(d, d2) ==
    IF d.fallback = <<>> /\ d2.fallback = <<>>
    THEN IF ZLt(d.fixed, d2.fixed) THEN -1
         ELSE IF d.fixed = d2.fixed THEN 0 ELSE 1
    ELSE decCmp(asFallback(d), asFallback(d2))

\* Equal comparing the fixed fields whatever the representation
EqualFixed(d, d2) == d.fixed = d2.fixed

\* func (d Decimal) Equal(d2 Decimal) bool
Equal(d, d2) ==
    IF d.fallback = <<>> /\ d2.fallback = <<>> THEN d.fixed = d2.fixed
    ELSE decCmp(asFallback(d), asFallback(d2)) = 0

\* func (d Decimal) GreaterThan(d2 Decimal) bool
GreaterThan(d, d2) ==
    IF d.fallback = <<>> /\ d2.fallback = <<>> THEN ZGt(d.fixed, d2.fixed)
    ELSE decCmp(asFallback(d), asFallback(d2)) = 1

\* func (d Decimal) GreaterThanOrEqual(d2 Decimal) bool
GreaterThanOrEqual(d, d2) ==
    IF d.fallback = <<>> /\ d2.fallback = <<>> THEN ZGe(d.fixed, d2.fixed)
    ELSE decCmp(asFallback(d), asFallback(d2)) >= 0

\* func (d Decimal) LessThan(d2 Decimal) bool
LessThan(d, d2) ==
    IF d.fallback = <<>> /\ d2.fallback = <<>> THEN ZLt(d.fixed, d2.fixed)
    ELSE decCmp(asFallback(d), asFallback(d2)) = -1

\* func (d Decimal) LessThanOrEqual(d2 Decimal) bool
LessThanOrEqual(d, d2) ==
    IF d.fallback = <<>> /\ d2.fallback = <<>> THEN ZLe(d.fixed, d2.fixed)
    ELSE decCmp(asFallback(d), asFallback(d2)) <= 0


(***************************************************************************)
(* The variant of src/decimal.go.  Its parseFixed, String and Scan share   *)
(* the names of the ones above; they carry the suffix Old here.  The       *)
(* variant has no stringCache, its sign switch cuts v at the end           *)
(* (v = v[:len(v)-1]), and the fast path of its Scan assigns d.fixed only. *)
(***************************************************************************)
\* the sign switch: <<v without its last byte, negative>>
parseSignOld(v) ==
    IF Len(v) > 1 /\ v[1] = "+" THEN <<SubSeq(v, 1, Len(v) - 1), FALSE>>
    ELSE IF Len(v) > 1 /\ v[1] = "-" THEN <<SubSeq(v, 1, Len(v) - 1), TRUE>>
    ELSE <<v, FALSE>>

parseUnquotedOld(v) ==
    IF Len(v) > 21 THEN ParseFail
    ELSE parseSigned(parseSignOld(parseTrimPoint(parseTrimZeros(v))))

\* func parseFixed(v) (int64, bool)
parseFixedOld(v) == parseUnquotedOld(Unquote(v))

\* func (d Decimal) String() string
StringOld(d) ==
    IF d.fallback = <<>> THEN BufSlice(formatFixed(d.fixed))
    ELSE decString(d.fallback[1])

\* d.fixed = fixed; return nil: d.fallback stays
ScanParsedOld(d, value, p) ==
    IF p[2] THEN <<Decimal(p[1], d.fallback), FALSE>>
    ELSE FallbackSet(d, decScan(value))

\* func (d *Decimal) Scan(value interface{}) error
ScanOld(d, value) ==
    ScanParsedOld(d, value,
                  IF value.isNil THEN ParseFail ELSE parseFixedOld(value.text))


(***************************************************************************)
(* The caches as init() leaves them while it runs: n is the loop variable  *)
(* i of init(), the entries below n are written and the others hold the    *)
(* zero value, the empty string.                                           *)
(***************************************************************************)
\* a loop that stops at cacheOffset
initRunningHalf(i) == i < cacheOffset

\* for i := 0; i < cacheSize; i++
initRunning(i) == i < cacheSize

\* valueCache[i] and stringCache[i] when init() has written n entries
cacheRead(n, i) ==
    CASE i >= 0 /\ i < cacheSize -> IF i < n THEN cacheEntry(i) ELSE <<>>

\* func (d Decimal) String() string, reading the cache in the state n
StringRead(n, d) ==
    IF d.fallback = <<>>
    THEN IF cacheHit(d.fixed) THEN cacheRead(n, cacheIndex(d.fixed))
         ELSE BufSlice(formatFixed(d.fixed))
    ELSE decString(d.fallback[1])

\* func (d Decimal) Value() (driver.Value, error), reading the cache in
\* the state n
ValueRead(n, d) ==
    IF d.fallback = <<>>
    THEN IF cacheHit(d.fixed) THEN cacheRead(n, cacheIndex(d.fixed))
         ELSE StringRead(n, d)
    ELSE decString(d.fallback[1])

(***************************************************************************)
(* The state.  The registers a and b are Decimal structs: the field        *)
(* fallback is 0 for nil or the address of a cell of heap, so that two     *)
(* structs can hold the same pointer.  nd is a NullDecimal.                *)
(***************************************************************************)
VARIABLES
    va,       \* a Decimal variable of the caller
    vb,       \* a second Decimal variable of the caller
    nd,       \* a NullDecimal variable of the caller
    heap,     \* the decimal.Decimal cells the fallback pointers point to
    input,    \* the argument of the call of a one-call specification
    call,     \* the last call: its operands, its argument, what it returned
    steps,    \* the number of calls made so far
    cache,    \* the number of entries of the caches init() has written
    readers   \* the goroutines that call String and Value

vars == <<va, vb, nd, heap, input, call, steps, cache, readers>>

\* the goroutines, and a goroutine before its call
Threads == {"g1", "g2"}
Reader(pc, op, d, ret) == [pc |-> pc, op |-> op, d |-> d, ret |-> ret]
Idle == [t \in Threads |-> Reader("idle", "none", Zero, <<>>)]

\* init() has returned and no goroutine has made a call
PackageLoaded == cache = cacheSize /\ readers = Idle

Ref(fixed, fallback) == [fixed |-> fixed, fallback |-> fallback]
ZeroRef == Ref(Z0, 0)

\* the value of a struct: *d.fallback read through the pointer
Load(h, r) == Decimal(r.fixed, IF r.fallback = 0 THEN <<>> ELSE <<h[r.fallback]>>)

\* a value returned by a call, assigned to a variable: a non-nil fallback
\* of a returned value always points to a cell of its own
Store(h, d) ==
    IF d.fallback = <<>> THEN <<Ref(d.fixed, 0), h>>
    ELSE <<Ref(d.fixed, Len(h) + 1), Append(h, d.fallback[1])>>

\* the receiver written through the pointer it holds: *d.fallback = fallback
StoreReceiverInPlace(h, r, d) ==
    IF r.fallback # 0 /\ d.fallback # <<>>
    THEN <<Ref(d.fixed, r.fallback), [h EXCEPT ![r.fallback] = d.fallback[1]]>>
    ELSE Store(h, d)

\* the assignments of Scan and the Unmarshal methods to their receiver r:
\* d.fixed = ..., d.fallback = nil or the address of a new local
StoreReceiver(h, r, d) == Store(h, d)

NoInput == [kind |-> "none", text |-> <<>>, num |-> Z0]
IntInput(x) == [kind |-> "int", text |-> <<>>, num |-> x]
TextInput(t) == [kind |-> "text", text |-> t, num |-> Z0]
FixedInput(f) == [kind |-> "fixed", text |-> <<>>, num |-> f]

Call(op, x, y, ret, err, arg, recv) ==
    [op |-> op, x |-> x, y |-> y, ret |-> ret, err |-> err, arg |-> arg,
     recv |-> recv]
NoCall == Call("init", Zero, Zero, <<>>, FALSE, NilValue, ZeroRef)

InitRegs ==
    /\ va = ZeroRef
    /\ vb = ZeroRef
    /\ nd = NullDecimal(ZeroRef, FALSE)
    /\ heap = <<>>
    /\ call = NoCall
    /\ steps = 0
    /\ PackageLoaded

\* a = <call>, for a call that returned the Decimal d and the error err
AssignedA(op, arg, d, err) ==
    /\ va' = Store(heap, d)[1]
    /\ heap' = Store(heap, d)[2]
    /\ call' = Call(op, Zero, Zero, <<d>>, err, arg, va)
    /\ steps' = steps + 1
    /\ UNCHANGED <<cache, readers, vb, nd, input>>

\* b = <call>, for a call on the operands x and y that returned d
Returned(op, x, y, d) ==
    /\ vb' = Store(heap, d)[1]
    /\ heap' = Store(heap, d)[2]
    /\ call' = Call(op, x, y, <<d>>, FALSE, NilValue, vb)
    /\ steps' = steps + 1
    /\ UNCHANGED <<cache, readers, va, nd, input>>

\* a call on the operands x and y that panicked
Panicked(op, x, y) ==
    /\ call' = Call(op, x, y, <<>>, FALSE, NilValue, vb)
    /\ steps' = steps + 1
    /\ UNCHANGED <<cache, readers, va, vb, nd, heap, input>>

\* b.<call>(arg), for a pointer-receiver call that left r[1] in *b and
\* returned the error r[2]; with an error the receiver is not written
Received(op, arg, r) ==
    /\ vb' = (IF r[2] THEN vb ELSE StoreReceiver(heap, vb, r[1])[1])
    /\ heap' = (IF r[2] THEN heap ELSE StoreReceiver(heap, vb, r[1])[2])
    /\ call' = Call(op, Load(heap, vb), Zero, <<r[1]>>, r[2], arg, vb)
    /\ steps' = steps + 1
    /\ UNCHANGED <<cache, readers, va, nd, input>>

\* a call that returned the text t for the Decimal d and wrote nothing
Rendered(op, d, t) ==
    /\ call' = Call(op, d, Zero, <<t>>, FALSE, NilValue, va)
    /\ steps' = steps + 1
    /\ UNCHANGED <<cache, readers, va, vb, nd, heap, input>>

(***************************************************************************)
(* SpecInt: one call of NewFromInt, for the arguments around zero, around  *)
(* the two ends of the fast range and at the two ends of int64.            *)
(***************************************************************************)
Near == 20

IntInputs ==
    {ZAdd(c, ZInt(k)) : c \in {Z0, maxInt, minInt}, k \in (-Near)..Near}
      \cup {ZSub(MaxInt64, ZInt(k)) : k \in 0..Near}
      \cup {ZAdd(MinInt64, ZInt(k)) : k \in 0..Near}

InitInt == InitRegs /\ input \in {IntInput(x) : x \in IntInputs}

\* a = NewFromInt(x)
NewFromIntStep ==
    /\ call.op = "init"
    /\ input.kind = "int"
    /\ AssignedA("NewFromInt", NilValue, NewFromInt(input.num), FALSE)

NextInt == NewFromIntStep

SpecInt == InitInt /\ [][NextInt]_vars

\* The fast range of whole numbers, written out.
IntLow == ZInt(-9223372)
IntHigh == ZInt(9223372)

\* C1: NewFromInt(x) is fast with fixed = x * 10^12 if and only if
\* -9223372 <= x <= 9223372; outside that range it is a fallback Decimal
\* holding x; the multiplication x * 10^12 of the fast path does not
\* overflow int64.
C1_NewFromIntFastIffInRange ==
    call.op = "NewFromInt" =>
        LET x == input.num
            d == Load(heap, va)
        IN  /\ IsOptimized(d) <=> (ZLe(IntLow, x) /\ ZLe(x, IntHigh))
            /\ IsOptimized(d) =>
                   /\ d.fixed = ZMul(x, ZMk(FALSE, NPow10(12)))
                   /\ ~OvfMul(x, scale)
            /\ ~IsOptimized(d) =>
                   /\ decCmp(d.fallback[1], decNew(x, 0)) = 0
                   /\ decString(d.fallback[1])
                        = (IF x.neg THEN <<"-">> ELSE <<>>) \o NText(x.mag)

\* NewFromInt(9223372) was called and gave the fast 9223372 * 10^12
C1_Witness ==
    /\ call.op = "NewFromInt"
    /\ input.num = IntHigh
    /\ IsOptimized(Load(heap, va))
    /\ va.fixed = ZLit(<<9, 223, 372, 0, 0, 0, 0>>)

(***************************************************************************)
(* The arithmetic calls b = b.Op(a).                                       *)
(***************************************************************************)
\* b = b.Add(a)
AddStep == Returned("Add", Load(heap, vb), Load(heap, va),
                    Add(Load(heap, vb), Load(heap, va)))

\* b = b.Sub(a)
SubStep == Returned("Sub", Load(heap, vb), Load(heap, va),
                    Sub(Load(heap, vb), Load(heap, va)))

\* b = b.Mul(a)
MulStep == Returned("Mul", Load(heap, vb), Load(heap, va),
                    Mul(Load(heap, vb), Load(heap, va)))

\* b = b.Div(a)
DivStep ==
    \E r \in Div(Load(heap, vb), Load(heap, va)) :
        IF r = <<>> THEN Panicked("Div", Load(heap, vb), Load(heap, va))
        ELSE Returned("Div", Load(heap, vb), Load(heap, va), r[1])

\* b = a.Neg()
NegStep == Returned("Neg", Load(heap, va), Load(heap, va), Neg(Load(heap, va)))

(***************************************************************************)
(* SpecArith: one arithmetic call on two operands.  The operands are fast  *)
(* values a literal or an integer gives, the quotient 4611686.01 / 0.5     *)
(* as Div returns it, and two fallback values.                             *)
(***************************************************************************)
FixedMax == maxIntInFixed
FixedMin == minIntInFixed
OneFixed == ZLit(<<1, 0, 0, 0, 0>>)
TwoFixed == ZLit(<<2, 0, 0, 0, 0>>)
HalfFixed == ZLit(<<500, 0, 0, 0>>)
BigFixed == ZLit(<<4, 611, 686, 10, 0, 0, 0>>)
CentFixed == ZLit(<<10, 0, 0, 0>>)
TenFixed == ZLit(<<10, 0, 0, 0, 0>>)
Fixed122 == ZLit(<<122, 0, 0, 0, 0>>)
Fixed1p23 == ZLit(<<1, 230, 0, 0, 0>>)
Fixed2p3 == ZLit(<<2, 300, 0, 0, 0>>)
Fixed0p3 == ZLit(<<300, 0, 0, 0>>)
FixedMicro == ZLit(<<1, 0, 0>>)
FixedTenthMicro == ZLit(<<100, 0>>)

LiteralOperands ==
    {Fast(f) : f \in {Z0, OneFixed, TwoFixed, HalfFixed, BigFixed,
                      ZNeg(CentFixed), FixedMax, FixedMin, Z1,
                      TenFixed, Fixed122, Fixed1p23, Fixed2p3, Fixed0p3,
                      FixedMicro, FixedTenthMicro,
                      ZNeg(ZLit(<<3, 0, 0, 0, 0>>))}}

QuotientOperands ==
    {r[1] : r \in {q \in Div(Fast(BigFixed), Fast(HalfFixed)) : q # <<>>}}

FallbackOperands ==
    {NewFromInt(ZLit(<<9, 223, 373>>)), newFromDecimal(decNew(Z0, -1))}

Operands == LiteralOperands \cup QuotientOperands \cup FallbackOperands

InitOperands(S) ==
    /\ \E x \in S, y \in S :
           /\ va = Store(<<>>, x)[1]
           /\ vb = Store(Store(<<>>, x)[2], y)[1]
           /\ heap = Store(Store(<<>>, x)[2], y)[2]
    /\ nd = NullDecimal(ZeroRef, FALSE)
    /\ input = NoInput
    /\ call = NoCall
    /\ steps = 0
    /\ PackageLoaded

InitArith == InitOperands(Operands)

NextArith ==
    /\ steps = 0
    /\ (AddStep \/ SubStep \/ MulStep \/ DivStep \/ NegStep)

SpecArith == InitArith /\ [][NextArith]_vars

InFixedRange(z) == ZLe(FixedMin, z) /\ ZLe(z, FixedMax)
BothFast == IsOptimized(call.x) /\ IsOptimized(call.y)

\* the Decimal d holds exactly the value z / 10^12
HoldsFixed(d, z) == decCmp(asFallback(d), decNew(z, -12)) = 0

\* C3: when mul(x, y) reports success with r then r * 10^12 = x * y
\* exactly, r has the sign of the product, r is in [minFixed, maxFixed]
\* and no int64 operation of the kernel has overflowed, and Mul returns
\* the fast r; when mul reports failure Mul returns the product of the
\* fallback engine.  1.23 * 2 is the fast 2.46; 0.000001 * 0.0000001,
\* a product with 13 fractional digits, is delegated.
C3_MulExactOrDelegated ==
    (call.op = "Mul" /\ BothFast) =>
        LET x == call.x.fixed
            y == call.y.fixed
            st == mulTraced(x, y)
            d == call.ret[1]
        IN  /\ mul(x, y) = <<st.result, st.ok>>
            /\ st.ok =>
                   /\ ZMul(st.result, ZMk(FALSE, NPow10(12))) = ZMul(x, y)
                   /\ (st.result # Z0 => st.result.neg = (x.neg # y.neg))
                   /\ InFixedRange(st.result)
                   /\ ~st.ovf
                   /\ d = Fast(st.result)
            /\ ~st.ok =>
                   /\ ~IsOptimized(d)
                   /\ d = newFromDecimal(decMul(decNew(x, -12), decNew(y, -12)))
                   /\ decCmp(d.fallback[1], decNew(ZMul(x, y), -24)) = 0
            /\ (x = Fixed1p23 /\ y = TwoFixed) =>
                   (IsOptimized(d) /\ String(d) = <<"2", ".", "4", "6">>)
            /\ (x = FixedMicro /\ y = FixedTenthMicro) => ~IsOptimized(d)

\* b = 1.23, a = 2 and b.Mul(a) gave the fast 2.46
C3_Witness ==
    /\ call.op = "Mul"
    /\ call.x = Fast(Fixed1p23)
    /\ call.y = Fast(TwoFixed)
    /\ call.ret = <<Fast(ZLit(<<2, 460, 0, 0, 0>>))>>

\* C4: a fast result z of Div(x, y) is one for which mul(y.fixed, z)
\* succeeds and gives x.fixed, so that y * z = x exactly, whatever the
\* candidate of the floating-point approximation was; every other call
\* returns DivRound(x, y, 16).  1 / 2 is "0.5", 122 / 10 is "12.2" and
\* 2.3 / 0.3 is "7.6666666666666667".
C4_DivExactOrRounded ==
    call.op = "Div" =>
        LET x == call.x
            y == call.y
        IN  /\ IF call.ret # <<>> /\ IsOptimized(call.ret[1])
               THEN /\ BothFast
                    /\ mul(y.fixed, call.ret[1].fixed) = <<x.fixed, TRUE>>
                    /\ ZMul(y.fixed, call.ret[1].fixed)
                         = ZMul(x.fixed, ZMk(FALSE, NPow10(12)))
               ELSE call.ret = DivRound(x, y, 16)
            /\ (x = Fast(OneFixed) /\ y = Fast(TwoFixed)) =>
                   String(call.ret[1]) = <<"0", ".", "5">>
            /\ (x = Fast(Fixed122) /\ y = Fast(TenFixed)) =>
                   String(call.ret[1]) = <<"1", "2", ".", "2">>
            /\ (x = Fast(Fixed2p3) /\ y = Fast(Fixed0p3)) =>
                   String(call.ret[1])
                     = <<"7", ".", "6", "6", "6", "6", "6", "6", "6", "6",
                         "6", "6", "6", "6", "6", "6", "6", "7">>

\* b = 1, a = 2 and b.Div(a) gave the fast 0.5
C4_Witness ==
    /\ call.op = "Div"
    /\ call.x = Fast(OneFixed)
    /\ call.y = Fast(TwoFixed)
    /\ call.ret = <<Fast(HalfFixed)>>

\* C5: div(x, 0) reports failure for every x, so that Div by zero has
\* the result of the fallback engine, which panics; div(0, y) for y # 0
\* is the fast zero.
C5_DivByZeroDelegated ==
    (call.op = "Div" /\ BothFast) =>
        LET x == call.x.fixed
            y == call.y.fixed
        IN  /\ y = Z0 =>
                   /\ \A r \in div(x, y) : ~r[2]
                   /\ call.ret = DivRound(call.x, call.y, 16)
                   /\ call.ret = <<>>
            /\ (x = Z0 /\ y # Z0) =>
                   /\ div(x, y) = {<<Z0, TRUE>>}
                   /\ call.ret = <<Fast(Z0)>>

\* b = 1, a = 0 and b.Div(a) panicked in the fallback engine
C5_Witness ==
    /\ call.op = "Div"
    /\ call.x = Fast(OneFixed)
    /\ call.y = Fast(Z0)
    /\ call.ret = <<>>

(***************************************************************************)
(* SpecChain: up to MaxChain arithmetic calls b = b.Op(a) in a row, from   *)
(* operands NewFromString gives in fast representation.                    *)
(***************************************************************************)
MaxChain == 2

\* "-0.000922337201" and "-0.0000000001"
SmallFixed == ZNeg(ZLit(<<922, 337, 201>>))
TinyFixed == ZNeg(ZLit(<<100>>))

ChainOperands ==
    {Fast(f) : f \in {Z0, OneFixed, HalfFixed, SmallFixed, TinyFixed}}

InitChain == InitOperands(ChainOperands)

NextChain ==
    /\ steps < MaxChain
    /\ (AddStep \/ SubStep \/ MulStep \/ DivStep \/ NegStep)

SpecChain == InitChain /\ [][NextChain]_vars

\* C2: for fast operands Add returns a fast result exactly when the exact
\* sum is in [minFixed, maxFixed], with fixed the sum, and the exact sum
\* in the fallback engine otherwise; the bound check and the addition do
\* not overflow int64; Sub(x, y) is Add(x, Neg(y)), fast exactly when the
\* exact difference is in range.
C2_AddFastIffInRange ==
    (call.op \in {"Add", "Sub"} /\ BothFast) =>
        LET x == call.x.fixed
            y == IF call.op = "Add" THEN call.y.fixed ELSE ZNeg(call.y.fixed)
            d == call.ret[1]
        IN  /\ IsOptimized(d) <=> InFixedRange(ZAdd(x, y))
            /\ IsOptimized(d) => d.fixed = ZAdd(x, y)
            /\ ~IsOptimized(d) => HoldsFixed(d, ZAdd(x, y))
            /\ ~OvfSub(IF ZGt(y, Z0) THEN maxIntInFixed ELSE minIntInFixed, y)
            /\ IsOptimized(d) => ~OvfAdd(x, y)
            /\ call.op = "Sub" => d = Add(call.x, Neg(call.y))

(***************************************************************************)
(* SpecText: one call of NewFromString or of Scan on a decimal literal,    *)
(* or one call of String or of Value on a fast Decimal.  A literal is a    *)
(* sign, integer digits, and a fractional part that is empty or a '.'      *)
(* with digits, possibly in double quotes.                                 *)
(***************************************************************************)
Signs == {<<>>, <<"+">>, <<"-">>}

IntParts ==
    {<<>>, <<"0">>, <<"0", "0">>, <<"7">>, <<"0", "4", "2">>,
     <<"1", "0", "0", "0">>,
     <<"9", "2", "2", "3", "3", "7", "1">>,
     <<"0", "9", "2", "2", "3", "3", "7", "1">>}

FracParts ==
    {<<>>, <<".">>, <<".", "0">>, <<".", "5">>, <<".", "5", "0">>,
     <<".", "0", "0", "0">>, <<".", "2", "5">>,
     <<".", "1", "2", "3", "4", "5", "6", "7", "8", "9", "0", "1", "2">>,
     <<".", "0", "0", "0", "0", "0", "0", "0", "0", "0", "0", "0", "1">>,
     <<".", "1", "2", "0", "0", "0", "0", "0", "0", "0", "0", "0", "0">>}

\* the literals with at least one digit
Literals ==
    {l \in [sign : Signs, int : IntParts, frac : FracParts, quoted : BOOLEAN] :
         l.int # <<>> \/ Len(l.frac) > 1}

LitBody(l) == l.sign \o l.int \o l.frac
LitText(l) == IF l.quoted THEN <<"\"">> \o LitBody(l) \o <<"\"">> ELSE LitBody(l)

NearCents == 10

\* the whole numbers of cents around -1000.00, 0 and 1000.00
CentInputs ==
    {ZMul(ZInt(c + k), aCentInFixed) :
         c \in {-100000, -12345, 0, 29, 100000}, k \in (-NearCents)..NearCents}

FixedInputs ==
    CentInputs
      \cup {ZAdd(f, Z1) : f \in CentInputs}
      \cup {ZSub(f, FixedMicro) : f \in CentInputs}
      \cup {FixedMax, FixedMin, Z1, ZNeg(Z1), BigFixed,
            ZLit(<<9, 223, 371, 999, 999, 999, 999>>),
            ZNeg(ZLit(<<9, 223, 371, 999, 999, 999, 999>>)),
            ZLit(<<123, 456, 789, 0, 0, 0>>),
            ZNeg(ZLit(<<1, 0, 0, 0, 0, 0, 1>>))}

InitText ==
    \/ InitRegs /\ input \in {TextInput(LitText(l)) : l \in Literals}
    \/ /\ input \in {FixedInput(f) : f \in FixedInputs}
       /\ va = Ref(input.num, 0)
       /\ vb = ZeroRef
       /\ nd = NullDecimal(ZeroRef, FALSE)
       /\ heap = <<>>
       /\ call = NoCall
       /\ steps = 0
       /\ PackageLoaded

NewFromStringResult(arg, r) == AssignedA("NewFromString", arg, r[1], r[2])

\* a, err = NewFromString(s)
NewFromStringStep ==
    /\ call.op = "init"
    /\ input.kind = "text"
    /\ NewFromStringResult(StringValue(input.text), NewFromString(input.text))

\* err = b.Scan(s)
ScanStep ==
    /\ call.op = "init"
    /\ input.kind = "text"
    /\ Received("Scan", StringValue(input.text),
                Scan(Load(heap, vb), StringValue(input.text)))

\* a.String()
StringStep ==
    /\ call.op = "init"
    /\ input.kind = "fixed"
    /\ Rendered("String", Load(heap, va), String(Load(heap, va)))

\* a.Value()
ValueStep ==
    /\ call.op = "init"
    /\ input.kind = "fixed"
    /\ Rendered("Value", Load(heap, va), Value(Load(heap, va)))

NextText == NewFromStringStep \/ ScanStep \/ StringStep \/ ValueStep

SpecText == InitText /\ [][NextText]_vars

RECURSIVE StripLeadingZeros(_)
StripLeadingZeros(s) ==
    IF s # <<>> /\ s[1] = "0" THEN StripLeadingZeros(Tail(s)) ELSE s

RECURSIVE StripTrailingZeros(_)
StripTrailingZeros(s) ==
    IF s # <<>> /\ s[Len(s)] = "0"
    THEN StripTrailingZeros(SubSeq(s, 1, Len(s) - 1)) ELSE s

\* the normal form of a literal: no '+', no leading integer zeros, no
\* trailing fractional zeros, no bare '.', "0" for an absent integer part,
\* and "0" for zero
NormalInt(l) ==
    IF StripLeadingZeros(l.int) = <<>> THEN <<"0">> ELSE StripLeadingZeros(l.int)
NormalFrac(l) == IF l.frac = <<>> THEN <<>> ELSE StripTrailingZeros(Tail(l.frac))
Normalized(l) ==
    IF NormalInt(l) = <<"0">> /\ NormalFrac(l) = <<>> THEN <<"0">>
    ELSE (IF l.sign = <<"-">> THEN <<"-">> ELSE <<>>)
           \o NormalInt(l)
           \o (IF NormalFrac(l) = <<>> THEN <<>> ELSE <<".">> \o NormalFrac(l))

\* the call on the literal l succeeded in fast representation and String()
\* of its result is the normal form of l
RoundTrips(l) ==
    /\ ~call.err
    /\ IsOptimized(call.ret[1])
    /\ String(call.ret[1]) = Normalized(l)

\* a sign, no integer digit, and no fractional digit but zeros
SignedZeroFraction(l) ==
    l.sign # <<>> /\ l.int = <<>> /\ StripTrailingZeros(Tail(l.frac)) = <<>>

FractionText(n) == NSeq([i \in 1..12 |-> DigitChar(NDigitAt(n, 12 - i))])

\* the canonical text of fixed / 10^12
CanonicalParts(neg, qr) ==
    (IF neg THEN <<"-">> ELSE <<>>)
      \o NText(qr[1])
      \o (IF qr[2] = <<>> THEN <<>>
          ELSE <<".">> \o StripTrailingZeros(FractionText(qr[2])))
Canonical(fixed) == CanonicalParts(fixed.neg, NDivMod(fixed.mag, NPow10(12)))

\* C7: String() of a fast Decimal with fixed in [minFixed, maxFixed] is
\* the canonical text of fixed / 10^12 and the text the fallback engine
\* renders for that value, and the formatter uses no index and no slice
\* outside its 21-byte buffer.
C7_StringCanonical ==
    (call.op = "String" /\ InFixedRange(call.x.fixed)) =>
        /\ call.ret = <<Canonical(call.x.fixed)>>
        /\ call.ret = <<decString(decNew(call.x.fixed, -12))>>
        /\ BufSliceOk(formatFixed(call.x.fixed))
        /\ (~cacheHit(call.x.fixed)) =>
               call.ret = <<BufSlice(formatFixed(call.x.fixed))>>

\* String() of -9223371.999999999999 filled the whole buffer
C7_Witness ==
    /\ call.op = "String"
    /\ call.x = Fast(ZNeg(ZLit(<<9, 223, 371, 999, 999, 999, 999>>)))
    /\ Len(call.ret[1]) = BufLen
    /\ formatFixed(call.x.fixed).start = 0

\* a whole number of cents in [-1000.00, 1000.00]
InCentRange(fixed) ==
    /\ ZLe(ZNeg(ZLit(<<1, 0, 0, 0, 0, 0>>)), fixed)
    /\ ZLe(fixed, ZLit(<<1, 0, 0, 0, 0, 0>>))
    /\ ZRem(fixed, ZLit(<<10, 0, 0, 0>>)) = Z0

\* C8: for a whole number of cents in [-1000.00, 1000.00] Value() returns
\* the cache entry at fixed / 10^10 + 100000, an index within 0..200000,
\* and the entry is the text of the uncached formatter; for every other
\* fast value Value() returns String(), the text of the uncached formatter.
C8_ValueCacheCorrect ==
    call.op = "Value" =>
        LET fixed == call.x.fixed
            i == ZToInt(ZQuo(fixed, ZLit(<<10, 0, 0, 0>>))) + 100000
        IN  IF InCentRange(fixed)
            THEN /\ i \in 0..200000
                 /\ call.ret = <<valueCache(i)>>
                 /\ valueCache(i) = BufSlice(formatFixed(fixed))
            ELSE /\ call.ret = <<String(call.x)>>
                 /\ call.ret = <<BufSlice(formatFixed(fixed))>>

\* Value() of -1000.00 read the entry at index 0
C8_Witness ==
    /\ call.op = "Value"
    /\ call.x = Fast(aNeg1000InFixed)
    /\ cacheIndex(call.x.fixed) = 0
    /\ call.ret = <<<<"-", "1", "0", "0", "0">>>>

(***************************************************************************)
(* Spec: up to MaxSteps calls on the variables a, b and nd, which start    *)
(* as zero values.                                                         *)
(***************************************************************************)
MaxSteps == 3

\* "1.5", "9223372" (which the parser leaves to the fallback engine),
\* "null" and a text that is no number
Texts ==
    {<<"1", ".", "5">>, <<"9", "2", "2", "3", "3", "7", "2">>, NullText,
     <<"x">>}

ScanValues == {NilValue} \cup {StringValue(t) : t \in Texts}

\* the binary encoding of 1.5 and a truncated one
Binaries == {<<255, 255, 255, 255, 2, 15>>, <<0, 0>>}

\* a, err = NewFromString(t)
ParseAStep ==
    \E t \in Texts : NewFromStringResult(StringValue(t), NewFromString(t))

\* b = a
AssignBStep ==
    /\ vb' = va
    /\ call' = Call("Assign", Load(heap, va), Zero, <<Load(heap, va)>>, FALSE,
                    NilValue, vb)
    /\ steps' = steps + 1
    /\ UNCHANGED <<cache, readers, va, nd, heap, input>>

\* b = a.Copy()
CopyBStep == Returned("Copy", Load(heap, va), Zero, Copy(Load(heap, va)))

\* err = b.Scan(v)
ScanBStep ==
    \E v \in ScanValues : Received("Scan", v, Scan(Load(heap, vb), v))

\* err = b.UnmarshalJSON(t)
UnmarshalJSONBStep ==
    \E t \in Texts :
        Received("UnmarshalJSON", StringValue(t),
                 UnmarshalJSON(Load(heap, vb), t))

\* err = b.UnmarshalText(t)
UnmarshalTextBStep ==
    \E t \in Texts :
        Received("UnmarshalText", StringValue(t),
                 UnmarshalText(Load(heap, vb), t))

\* err = b.UnmarshalBinary(data)
UnmarshalBinaryBStep ==
    \E data \in Binaries :
        Received("UnmarshalBinary", NilValue,
                 UnmarshalBinary(Load(heap, vb), data))

\* nd.Scan(v), which left r[1] in *nd and returned the error r[2]: for nil
\* only Valid is written
NullScanned(v, r) ==
    /\ nd' = NullDecimal(IF v.isNil \/ r[2] THEN nd.Decimal
                         ELSE StoreReceiver(heap, nd.Decimal, r[1].Decimal)[1],
                         r[1].Valid)
    /\ heap' = (IF v.isNil \/ r[2] THEN heap
                ELSE StoreReceiver(heap, nd.Decimal, r[1].Decimal)[2])
    /\ call' = Call("NullDecimal.Scan", Load(heap, nd.Decimal), Zero,
                    <<r[1].Decimal>>, r[2], v, nd.Decimal)
    /\ steps' = steps + 1
    /\ UNCHANGED <<cache, readers, va, vb, input>>

\* err = nd.Scan(v)
NullScanStep ==
    \E v \in ScanValues :
        NullScanned(v, NullDecimalScan(NullDecimal(Load(heap, nd.Decimal),
                                                   nd.Valid), v))

Init == InitRegs /\ input = NoInput

Next ==
    /\ steps < MaxSteps
    /\ \/ ParseAStep
       \/ AssignBStep
       \/ CopyBStep
       \/ ScanBStep
       \/ UnmarshalJSONBStep
       \/ UnmarshalTextBStep
       \/ UnmarshalBinaryBStep
       \/ AddStep
       \/ SubStep
       \/ MulStep
       \/ DivStep
       \/ NegStep
       \/ NullScanStep

Spec == Init /\ [][Next]_vars

ReceiverOps == {"Scan", "UnmarshalJSON", "UnmarshalText", "UnmarshalBinary"}
OperandOps == {"Add", "Sub", "Mul", "Div", "Neg"}

\* C9: a call of Scan, UnmarshalJSON, UnmarshalText or UnmarshalBinary on
\* b, and an arithmetic call with a as an operand, leave the struct a and
\* the value behind its fallback pointer as they were, whether b is the
\* zero value, a.Copy() or a struct copy of a that shares a's pointer.
C9_CopyIsIndependent ==
    [][(call'.op \in ReceiverOps \cup OperandOps) =>
           /\ va' = va
           /\ Load(heap', va') = Load(heap, va)
           /\ String(Load(heap', va')) = String(Load(heap, va))]_vars

\* a holds a fallback value, b was a struct copy of a with the same
\* pointer, and a call of Scan on b has then given b another value
C9_Witness ==
    /\ call.op = "Scan"
    /\ ~call.err
    /\ va.fallback # 0
    /\ call.recv.fallback = va.fallback
    /\ Load(heap, vb) # Load(heap, va)

\* the value of the Decimal d is zero
IsZeroValue(d) == decCmp(asFallback(d), decZero) = 0

\* C10: Scan(nil) on a NullDecimal returns no error and leaves it with
\* Valid = false and a Decimal whose value is zero, whatever it held.
C10_NullScanNilIsZero ==
    (call.op = "NullDecimal.Scan" /\ call.arg.isNil) =>
        /\ ~call.err
        /\ ~nd.Valid
        /\ IsZeroValue(Load(heap, nd.Decimal))

(***************************************************************************)
(* SpecNull: a NullDecimal n is marshalled, and the text is unmarshalled   *)
(* into the fresh NullDecimal nd.                                          *)
(***************************************************************************)
NullInput(n, withoutQuotes) ==
    [kind |-> "null", text |-> <<>>, num |-> Z0, null |-> n,
     withoutQuotes |-> withoutQuotes]

NullInputs ==
    {NullInput(NullDecimal(d, v), q) :
         d \in Operands \cup ChainOperands, v \in BOOLEAN, q \in BOOLEAN}

InitNull == InitRegs /\ input \in NullInputs

\* a call on n that returned ret and wrote nothing
NullRendered(op, ret) ==
    /\ call' = Call(op, input.null.Decimal, Zero, ret, FALSE, NilValue,
                    nd.Decimal)
    /\ steps' = steps + 1
    /\ UNCHANGED <<cache, readers, va, vb, nd, heap, input>>

\* nd.<call>(arg), which left r[1] in *nd and returned the error r[2];
\* the Decimal of nd is written when the call reached it without an error
NullReceived(op, arg, reached, r) ==
    /\ nd' = NullDecimal(IF reached /\ ~r[2]
                         THEN StoreReceiver(heap, nd.Decimal, r[1].Decimal)[1]
                         ELSE nd.Decimal,
                         r[1].Valid)
    /\ heap' = (IF reached /\ ~r[2]
                THEN StoreReceiver(heap, nd.Decimal, r[1].Decimal)[2]
                ELSE heap)
    /\ call' = Call(op, Load(heap, nd.Decimal), Zero, <<r[1].Decimal>>, r[2],
                    arg, nd.Decimal)
    /\ steps' = steps + 1
    /\ UNCHANGED <<cache, readers, va, vb, input>>

\* n.MarshalJSON()
NullMarshalJSONStep ==
    /\ call.op = "init"
    /\ NullRendered("NullDecimal.MarshalJSON",
                    <<NullMarshalJSON(input.null, input.withoutQuotes)>>)

\* n.MarshalText()
NullMarshalTextStep ==
    /\ call.op = "init"
    /\ NullRendered("NullDecimal.MarshalText", <<NullMarshalText(input.null)>>)

\* n.Value()
NullValueStep ==
    /\ call.op = "init"
    /\ NullRendered("NullDecimal.Value", NullValue(input.null))

\* nd.UnmarshalJSON(text), for the text n.MarshalJSON() returned
NullUnmarshalJSONStep ==
    /\ call.op = "NullDecimal.MarshalJSON"
    /\ NullReceived("NullDecimal.UnmarshalJSON", StringValue(call.ret[1]),
                    call.ret[1] # NullText,
                    NullUnmarshalJSON(NullDecimal(Load(heap, nd.Decimal),
                                                  nd.Valid),
                                      call.ret[1]))

\* nd.UnmarshalText(text), for the text n.MarshalText() returned
NullUnmarshalTextStep ==
    /\ call.op = "NullDecimal.MarshalText"
    /\ NullReceived("NullDecimal.UnmarshalText", StringValue(call.ret[1]),
                    call.ret[1] # <<>>,
                    NullUnmarshalText(NullDecimal(Load(heap, nd.Decimal),
                                                  nd.Valid),
                                      call.ret[1]))

NextNull ==
    \/ NullMarshalJSONStep
    \/ NullMarshalTextStep
    \/ NullValueStep
    \/ NullUnmarshalJSONStep
    \/ NullUnmarshalTextStep

SpecNull == InitNull /\ [][NextNull]_vars

\* the text of the value of d, as the fallback engine renders it
ValueText(d) == decString(asFallback(d))

\* the Decimals d and d2 have the same value
SameValue(d, d2) == decCmp(asFallback(d), asFallback(d2)) = 0

\* C11: an invalid NullDecimal marshals to null, to the empty text and to
\* a nil storage value whatever Decimal it wraps; a valid one marshals as
\* its Decimal does, in quotes unless MarshalJSONWithoutQuotes is set; and
\* unmarshalling the JSON or the text of n into a fresh NullDecimal
\* succeeds and gives the Valid flag of n and, when valid, a Decimal with
\* the value of n.Decimal.
C11_NullMarshalRoundTrip ==
    LET n == input.null
    IN  /\ call.op = "NullDecimal.MarshalJSON" =>
               call.ret = <<IF ~n.Valid THEN <<"n", "u", "l", "l">>
                            ELSE IF input.withoutQuotes
                            THEN ValueText(n.Decimal)
                            ELSE <<"\"">> \o ValueText(n.Decimal) \o <<"\"">>>>
        /\ call.op = "NullDecimal.MarshalText" =>
               call.ret = <<IF ~n.Valid THEN <<>> ELSE ValueText(n.Decimal)>>
        /\ call.op = "NullDecimal.Value" =>
               call.ret = (IF ~n.Valid THEN <<>> ELSE <<ValueText(n.Decimal)>>)
        /\ call.op \in {"NullDecimal.UnmarshalJSON", "NullDecimal.UnmarshalText"} =>
               /\ ~call.err
               /\ nd.Valid = n.Valid
               /\ n.Valid => SameValue(Load(heap, nd.Decimal), n.Decimal)

\* the valid NullDecimal of the fallback 9223373 was marshalled in quotes
\* and unmarshalled into nd
C11_Witness ==
    /\ call.op = "NullDecimal.UnmarshalJSON"
    /\ input.null = NullDecimal(NewFromInt(ZLit(<<9, 223, 373>>)), TRUE)
    /\ call.arg.text = <<"\"", "9", "2", "2", "3", "3", "7", "3", "\"">>
    /\ nd.Valid
    /\ nd.Decimal.fallback # 0

(***************************************************************************)
(* SpecValue: one call of a method of the Decimal a, for fast values in    *)
(* and out of the fast range and for fallback values.                      *)
(***************************************************************************)
\* the fixed field of NewFromInt(123)
Fixed123 == ZLit(<<123, 0, 0, 0, 0>>)

ValueOperands ==
    Operands \cup ChainOperands
      \cup {Neg(d) : d \in Operands}
      \cup {Fast(Fixed123),
            newFromDecimal(decNew(ZInt(-5), -20)),
            newFromDecimal(decNew(ZInt(15), -1)),
            newFromDecimal(decNew(ZInt(7), 3))}

InitValue ==
    /\ \E x \in ValueOperands :
           /\ va = Store(<<>>, x)[1]
           /\ heap = Store(<<>>, x)[2]
    /\ vb = ZeroRef
    /\ nd = NullDecimal(ZeroRef, FALSE)
    /\ input = NoInput
    /\ call = NoCall
    /\ steps = 0
    /\ PackageLoaded

\* a call on a that returned the values ret and wrote nothing
Observed(op, d, ret) ==
    /\ call' = Call(op, d, Zero, ret, FALSE, NilValue, va)
    /\ steps' = steps + 1
    /\ UNCHANGED <<cache, readers, va, vb, nd, heap, input>>

\* a.IsPositive(), a.IsNegative(), a.IsZero(), a.Sign()
SignStep ==
    Observed("Sign", Load(heap, va),
             <<IsPositive(Load(heap, va)), IsNegative(Load(heap, va)),
               IsZero(Load(heap, va)), Sign(Load(heap, va))>>)

\* b = a.Abs()
AbsStep == Returned("Abs", Load(heap, va), Zero, Abs(Load(heap, va)))

\* a.Exponent(), a.Coefficient(), a.CoefficientInt64(), a.NumDigits()
CoefficientStep ==
    Observed("Coefficient", Load(heap, va),
             <<Exponent(Load(heap, va)), Coefficient(Load(heap, va)),
               CoefficientInt64(Load(heap, va)), NumDigits(Load(heap, va))>>)

NextValue ==
    /\ steps = 0
    /\ (SignStep \/ AbsStep \/ NegStep \/ CoefficientStep)

SpecValue == InitValue /\ [][NextValue]_vars

\* the sign of the value of d: -1, 0 or 1
ValueSign(d) == ZCmp(asFallback(d).value, Z0)

\* C12: exactly one of IsPositive, IsNegative and IsZero holds, for a fast
\* value as fixed > 0, fixed < 0 and fixed = 0; Sign is 1, -1 or 0 and
\* agrees with them; Neg flips the sign and Abs is never negative.
C12_SignTrichotomy ==
    /\ call.op = "Sign" =>
           /\ Cardinality({i \in 1..3 : call.ret[i]}) = 1
           /\ call.ret[4] \in {-1, 0, 1}
           /\ call.ret[1] <=> call.ret[4] = 1
           /\ call.ret[2] <=> call.ret[4] = -1
           /\ call.ret[3] <=> call.ret[4] = 0
           /\ call.ret[4] = ValueSign(call.x)
           /\ IsOptimized(call.x) => call.ret[4] = ZCmp(call.x.fixed, Z0)
    /\ call.op = "Neg" =>
           /\ ValueSign(call.ret[1]) = -ValueSign(call.x)
           /\ Sign(call.ret[1]) = -Sign(call.x)
    /\ call.op = "Abs" =>
           /\ ~IsNegative(call.ret[1])
           /\ ValueSign(call.ret[1]) >= 0
           /\ ZAbs(asFallback(call.ret[1]).value) = ZAbs(asFallback(call.x).value)

\* the predicates were called on the fast -0.01: only IsNegative holds
C12_Witness ==
    /\ call.op = "Sign"
    /\ call.x = Fast(ZNeg(CentFixed))
    /\ call.ret = <<FALSE, TRUE, FALSE, -1>>

\* the arguments no parser accepts: a text that is no number for every
\* call, and nil and "null" for Scan and UnmarshalText
InvalidArgument(op, arg) ==
    \/ arg = StringValue(<<"x">>)
    \/ op \in {"Scan", "UnmarshalText"} /\ arg = StringValue(NullText)
    \/ op = "Scan" /\ arg = NilValue

\* C13: Scan, UnmarshalJSON and UnmarshalText given a text that neither
\* parser accepts, and UnmarshalBinary given bytes the engine rejects,
\* return an error, and a call that returns an error leaves the receiver
\* as it was: the same value, the same representation, the same pointer.
C13_ErrorLeavesReceiver ==
    call.op \in ReceiverOps =>
        /\ (call.op # "UnmarshalBinary" /\ InvalidArgument(call.op, call.arg))
               => call.err
        /\ call.err =>
               /\ call.ret = <<call.x>>
               /\ vb = call.recv
               /\ Load(heap, vb) = call.x

\* b held the fallback 9223372 and b.Scan("x") returned an error
C13_Witness ==
    /\ call.op = "Scan"
    /\ call.arg = StringValue(<<"x">>)
    /\ call.err
    /\ vb.fallback # 0
    /\ Load(heap, vb) = newFromDecimal(decNew(ZLit(<<9, 223, 372>>), 0))

\* C14: a fast Decimal has the exponent -12 and its fixed field as the
\* coefficient, so the coefficient at the exponent is the value, and
\* NumDigits counts the digits of |fixed|; a fallback Decimal reports the
\* exponent, coefficient and digits of the engine's value.
C14_CoefficientIsFixed ==
    call.op = "Coefficient" =>
        /\ IsOptimized(call.x) =>
               /\ call.ret[1] = -12
               /\ call.ret[2] = call.x.fixed
               /\ call.ret[3] = call.x.fixed
               /\ call.ret[4] =
                      (IF call.x.fixed = Z0 THEN 1 ELSE Len(NText(call.x.fixed.mag)))
        /\ ~IsOptimized(call.x) =>
               /\ call.ret[1] = call.x.fallback[1].exp
               /\ call.ret[2] = call.x.fallback[1].value
               /\ call.ret[3] = Wrap64(call.x.fallback[1].value)
               /\ call.ret[4] = decNumDigits(call.x.fallback[1])
        /\ decCmp(decNew(call.ret[2], call.ret[1]), asFallback(call.x)) = 0

\* the four methods were called on NewFromInt(123)
C14_Witness ==
    /\ call.op = "Coefficient"
    /\ call.x = NewFromInt(ZInt(123))
    /\ call.ret = <<-12, Fixed123, Fixed123, 15>>

(***************************************************************************)
(* SpecNew: one call of New or NewFromDecimal on a coefficient and an      *)
(* exponent, around every limit of tryOptNew.                              *)
(***************************************************************************)
\* how many exponents below -12 and above 6 are tried
ExpBelow == 2
ExpAbove == 2

NewExponents == (-precision - ExpBelow)..(6 + ExpAbove)

\* coefficients inside int64: small ones, the limits of the range test
\* for each width of exponent, and the limits of int64
NewValues ==
    {ZInt(k) : k \in {0, 1, -1, 3, 4, 5, -9, 9, 10, -10, 92, 93, -92, -93,
                      922337, 922338, -922337, -922338,
                      9223372, 9223373, -9223372, -9223373, 10000000,
                      1000000000}}
      \cup {maxIntInFixed, minIntInFixed, scale,
            ZAdd(maxIntInFixed, Z1), ZSub(minIntInFixed, Z1),
            MaxInt64, MinInt64}

\* coefficients that do not fit int64
BigValues == {ZAdd(MaxInt64, Z1), ZSub(MinInt64, Z1), TwoTo64}

DecInput(value, exp) ==
    [kind |-> "dec", text |-> <<>>, num |-> value, exp |-> exp]

InitNew ==
    /\ InitRegs
    /\ input \in {DecInput(c, e) : c \in NewValues \cup BigValues,
                                   e \in NewExponents}

\* a = New(value, exp)
NewStep ==
    /\ call.op = "init"
    /\ InI64(input.num)
    /\ AssignedA("New", NilValue, New(input.num, input.exp), FALSE)

\* a = NewFromDecimal(decimal.NewFromBigInt(value, exp))
NewFromDecimalStep ==
    /\ call.op = "init"
    /\ AssignedA("NewFromDecimal", NilValue,
                 NewFromDecimal(decNew(input.num, input.exp)), FALSE)

NextNew == NewStep \/ NewFromDecimalStep

SpecNew == InitNew /\ [][NextNew]_vars

\* c * 10^(12+e) for e >= -12
ScaledTo12(c, e) == ZMul(c, ZMk(FALSE, NPow10(precision + e)))

\* c fits int64, e >= -12 and c * 10^(12+e) is in [minFixed, maxFixed]
FastRepresentable(c, e) ==
    /\ InI64(c)
    /\ e >= -precision
    /\ InFixedRange(ScaledTo12(c, e))

\* the Decimal d is what the claim states for the coefficient c and the
\* exponent e
NewAsClaimed(c, e, d) ==
    /\ IsOptimized(d) <=> FastRepresentable(c, e)
    /\ IsOptimized(d) =>
           /\ d.fixed = ScaledTo12(c, e)
           /\ tryOptNewReads(c, e) \subseteq DOMAIN pow10Table
    /\ ~IsOptimized(d) => d.fallback = <<decNew(c, e)>>
    /\ decCmp(asFallback(d), decNew(c, e)) = 0

\* C15: New and NewFromDecimal return a fast Decimal if and only if the
\* coefficient fits int64, the exponent is at least -12 and the coefficient
\* scaled by 10^(12+e) lies in [minFixed, maxFixed]; the fast path neither
\* overflows nor reads outside pow10Table; otherwise the Decimal wraps the
\* engine's value; the result always equals c * 10^e.
C15_NewFastIffRepresentable ==
    call.op \in {"New", "NewFromDecimal"} =>
        NewAsClaimed(input.num, input.exp, Load(heap, va))

(***************************************************************************)
(* SpecStay: chains of arithmetic calls on the accumulator b with the      *)
(* operand a, from fast and fallback values, with a Scan in between.       *)
(***************************************************************************)
MaxStay == 2

\* 0, 1, 0.5 and -0.01, and the fallback values 9223373, 1.5 and -5e-20
StayOperands ==
    {Zero, Fast(OneFixed), Fast(HalfFixed), Fast(ZNeg(CentFixed)),
     NewFromInt(ZLit(<<9, 223, 373>>)),
     newFromDecimal(decNew(ZInt(15), -1)),
     newFromDecimal(decNew(ZInt(-5), -20))}

\* the places and precisions of Round, Truncate and DivRound
StayPlaces == {-1, 0, 1}

InitStay == InitOperands(StayOperands)

\* b = b.DivRound(a, places)
DivRoundBStep ==
    \E p \in StayPlaces :
        IF DivRound(Load(heap, vb), Load(heap, va), p) = <<>>
        THEN Panicked("DivRound", Load(heap, vb), Load(heap, va))
        ELSE Returned("DivRound", Load(heap, vb), Load(heap, va),
                      DivRound(Load(heap, vb), Load(heap, va), p)[1])

\* b = b.Neg()
NegBStep == Returned("Neg", Load(heap, vb), Zero, Neg(Load(heap, vb)))

\* b = b.Abs()
AbsBStep == Returned("Abs", Load(heap, vb), Zero, Abs(Load(heap, vb)))

\* b = b.Round(places)
RoundBStep ==
    \E p \in StayPlaces :
        Returned("Round", Load(heap, vb), Zero, Round(Load(heap, vb), p))

\* b = b.Ceil()
CeilBStep == Returned("Ceil", Load(heap, vb), Zero, Ceil(Load(heap, vb)))

\* b = b.Floor()
FloorBStep == Returned("Floor", Load(heap, vb), Zero, Floor(Load(heap, vb)))

\* b = b.Truncate(precision)
TruncateBStep ==
    \E p \in StayPlaces :
        IF Truncate(Load(heap, vb), p) = <<>>
        THEN Panicked("Truncate", Load(heap, vb), Zero)
        ELSE Returned("Truncate", Load(heap, vb), Zero,
                      Truncate(Load(heap, vb), p)[1])

NextStay ==
    /\ steps < MaxStay
    /\ \/ AddStep
       \/ SubStep
       \/ MulStep
       \/ DivStep
       \/ DivRoundBStep
       \/ NegBStep
       \/ AbsBStep
       \/ RoundBStep
       \/ CeilBStep
       \/ FloorBStep
       \/ TruncateBStep
       \/ ScanBStep

SpecStay == InitStay /\ [][NextStay]_vars

ArithmeticOps ==
    {"Add", "Sub", "Mul", "Div", "DivRound", "Neg", "Abs", "Round", "Ceil",
     "Floor", "Truncate"}

\* C16: an arithmetic call with an operand in fallback representation
\* returns a fallback Decimal, also when the value would fit the fast form,
\* so a fallback accumulator stays fallback under every arithmetic call;
\* only Scan can make it fast again.
C16_FallbackStaysFallback ==
    [][call'.op \in ArithmeticOps =>
           /\ (call'.ret # <<>> /\
               (~IsOptimized(call'.x) \/ ~IsOptimized(call'.y)))
                  => ~IsOptimized(call'.ret[1])
           /\ ~IsOptimized(Load(heap, vb)) => ~IsOptimized(Load(heap', vb'))]_vars

\* the fallback 9223373 minus 1 is 9223372, which NewFromInt holds in fast
\* form, and the difference is a fallback Decimal
C16_Witness ==
    /\ call.op = "Sub"
    /\ call.x = NewFromInt(ZLit(<<9, 223, 373>>))
    /\ call.y = Fast(OneFixed)
    /\ ~IsOptimized(Load(heap, vb))
    /\ decCmp(asFallback(Load(heap, vb)), decNew(maxInt, 0)) = 0
    /\ IsOptimized(NewFromInt(maxInt))

(***************************************************************************)
(* SpecParse: one parsing call on every text of up to MaxText bytes over   *)
(* two digits, the point, the signs, a letter and the double quote.        *)
(***************************************************************************)
MaxText == 4

ParseChars == {"0", "1", ".", "-", "+", "x", "\""}

ParseTexts == UNION {[1..n -> ParseChars] : n \in 0..MaxText}

InitParse == InitRegs /\ input \in {TextInput(t) : t \in ParseTexts}

\* err = b.UnmarshalJSON(s)
UnmarshalJSONStep ==
    /\ call.op = "init"
    /\ input.kind = "text"
    /\ Received("UnmarshalJSON", StringValue(input.text),
                UnmarshalJSON(Load(heap, vb), input.text))

\* err = b.UnmarshalText(s)
UnmarshalTextStep ==
    /\ call.op = "init"
    /\ input.kind = "text"
    /\ Received("UnmarshalText", StringValue(input.text),
                UnmarshalText(Load(heap, vb), input.text))

NextParse ==
    NewFromStringStep \/ ScanStep \/ UnmarshalJSONStep \/ UnmarshalTextStep

SpecParse == InitParse /\ [][NextParse]_vars

ParseOps == {"NewFromString", "Scan", "UnmarshalJSON", "UnmarshalText"}

\* the text t without a leading sign
Unsigned(t) == IF t # <<>> /\ t[1] \in {"+", "-"} THEN Tail(t) ELSE t

\* digits and at most one point, with at least one digit
DigitsAndPoint(t) ==
    /\ \A i \in 1..Len(t) : IsDigit(t[i]) \/ t[i] = "."
    /\ Cardinality({i \in 1..Len(t) : t[i] = "."}) <= 1
    /\ \E i \in 1..Len(t) : IsDigit(t[i])

\* an optional pair of quotes around an optional sign, digits and at most
\* one point
WellFormed(t) == DigitsAndPoint(Unsigned(Unquote(t)))

\* C17: parseFixed accepts only well-formed texts, and a parsing call on
\* any other text returns an error.
C17_MalformedRejected ==
    call.op \in ParseOps =>
        /\ parseFixed(input.text)[2] => WellFormed(input.text)
        /\ ~WellFormed(input.text) => call.err

(***************************************************************************)
(* SpecRange: one parsing call on a decimal literal at the limits of the   *)
(* fast form: integer parts around 9223372 and twelve or thirteen          *)
(* fractional digits.                                                      *)
(***************************************************************************)
RangeIntParts ==
    {<<>>, <<"0">>, <<"7">>,
     <<"9", "2", "2", "3", "3", "7", "1">>,
     <<"9", "2", "2", "3", "3", "7", "2">>,
     <<"9", "2", "2", "3", "3", "7", "3">>,
     <<"0", "9", "2", "2", "3", "3", "7", "2">>}

RangeFracParts ==
    {<<>>, <<".">>, <<".", "0">>, <<".", "5">>,
     <<".", "0", "0", "0", "0", "0", "0", "0", "0", "0", "0", "0", "1">>,
     <<".", "0", "0", "0", "0", "0", "0", "0", "0", "0", "0", "0", "0", "1">>,
     <<".", "1", "2", "3", "0", "0", "0", "0", "0", "0", "0", "0", "0", "0">>}

\* the literals with at least one digit
RangeLiterals ==
    {l \in [sign : Signs, int : RangeIntParts, frac : RangeFracParts,
            quoted : {FALSE}] : l.int # <<>> \/ Len(l.frac) > 1}

InitRange == InitRegs /\ input \in {TextInput(LitText(l)) : l \in RangeLiterals}

SpecRange == InitRange /\ [][NextParse]_vars

\* the value of the literal l as the digits say
LitValue(l) ==
    decNew(ZMk(l.sign = <<"-">>,
               NFromText(l.int \o (IF l.frac = <<>> THEN <<>>
                                    ELSE Tail(l.frac)))),
           IF l.frac = <<>> THEN 0 ELSE -(Len(l.frac) - 1))

\* |value| <= 9223372 and at most 12 significant fractional digits
FitsFastForm(l) ==
    /\ decCmp(decAbs(LitValue(l)), decNew(maxInt, 0)) <= 0
    /\ Len(NormalFrac(l)) <= precision

\* the call on the literal l went as the claim states
ParsedAsClaimed(l) ==
    /\ ~call.err
    /\ IsOptimized(call.ret[1]) <=> FitsFastForm(l)
    /\ decCmp(asFallback(call.ret[1]), LitValue(l)) = 0

\* C18: a parsing call on a valid literal returns no error and the exact
\* value, in fast representation if |value| <= 9223372 with at most 12
\* significant fractional digits, and in fallback representation
\* otherwise.
C18_FastWheneverRepresentable ==
    call.op \in ParseOps =>
        \A l \in RangeLiterals : LitText(l) = input.text => ParsedAsClaimed(l)

\* the Decimals the registers a, b and nd hold
Registers == {Load(heap, va), Load(heap, vb), Load(heap, nd.Decimal)}

\* C19: in every reachable state a Decimal in fallback representation has
\* GetFixed() = 0, and a fast Decimal has a nil GetFallback() and
\* GetFixed() = value * 10^12.
C19_FallbackHasZeroFixed ==
    \A d \in Registers :
        /\ ~IsOptimized(d) => GetFallback(d) # <<>> /\ GetFixed(d) = Z0
        /\ IsOptimized(d) => GetFallback(d) = <<>> /\ HoldsFixed(d, GetFixed(d))

(***************************************************************************)
(* SpecRound: b = b.Round(places), on a fast or fallback b as given or as  *)
(* the quotient b.Div(a) left it.                                          *)
(***************************************************************************)
MaxRound == 2

\* places from -PlacesBelow to precision + PlacesAbove
PlacesBelow == 2
PlacesAbove == 1

RoundPlaces == (-PlacesBelow)..(precision + PlacesAbove)

\* 1.5, -1.23456, 9223371.5, 4611686.018 and 0.000000000005
Fixed1p5 == ZLit(<<1, 500, 0, 0, 0>>)
Fixed1p23456 == ZLit(<<1, 234, 560, 0, 0>>)
FixedNearMax == ZLit(<<9, 223, 371, 500, 0, 0, 0>>)
FixedHalfMax == ZLit(<<4, 611, 686, 18, 0, 0, 0>>)
FixedTie11 == ZLit(<<5>>)

RoundOperands ==
    {Fast(f) : f \in {Z0, HalfFixed, Fixed1p5, ZNeg(Fixed1p5),
                      ZNeg(Fixed1p23456), FixedNearMax, ZNeg(FixedNearMax),
                      FixedMax, FixedMin, FixedHalfMax, FixedTie11, ZNeg(Z1)}}
      \cup {newFromDecimal(decNew(ZInt(-15), -1))}

InitRound == InitOperands(RoundOperands)

PlacesInput(p) == [kind |-> "places", text |-> <<>>, num |-> Z0, places |-> p]

\* b = <call>(places), for a call on x that returned d
Rounded(op, p, x, d) ==
    /\ vb' = Store(heap, d)[1]
    /\ heap' = Store(heap, d)[2]
    /\ call' = Call(op, x, Zero, <<d>>, FALSE, NilValue, vb)
    /\ input' = PlacesInput(p)
    /\ steps' = steps + 1
    /\ UNCHANGED <<cache, readers, va, nd>>

\* b = b.Round(places)
RoundStep ==
    \E p \in RoundPlaces :
        Rounded("Round", p, Load(heap, vb), Round(Load(heap, vb), p))

NextRound ==
    /\ steps < MaxRound
    /\ (DivStep \/ RoundStep)

SpecRound == InitRound /\ [][NextRound]_vars

\* the multiple of s nearest to z, ties away from zero
NearestMultiple(z, s) ==
    ZMk(z.neg,
        ZMul(ZQuo(ZAdd(ZMul(ZAbs(z), ZInt(2)), s), ZMul(s, ZInt(2))), s).mag)

\* Round(places) of the fast x returned d as the claim states
RoundedAsClaimed(x, p, d) ==
    /\ (0 <= p /\ p < precision) =>
           /\ IsOptimized(d)
           /\ d.fixed = NearestMultiple(x.fixed, ZPow10(precision - p))
           /\ InFixedRange(d.fixed)
           /\ ~OvfMul(ZRem(x.fixed, ZPow10(precision - p)), ZInt(2))
    /\ p >= precision => d = x
    /\ p < 0 =>
           /\ ~IsOptimized(d)
           /\ HoldsFixed(d, NearestMultiple(x.fixed, ZPow10(precision - p)))

\* C20: Round(places) of a fast Decimal is, for 0 <= places <= 11, the fast
\* Decimal at the nearest multiple of 10^-places, ties away from zero,
\* inside [minFixed, maxFixed] and without overflow of m*2; for places
\* >= 12 the Decimal itself; for places < 0 the engine's result.
C20_RoundHalfAwayFromZero ==
    (call.op = "Round" /\ IsOptimized(call.x)) =>
        RoundedAsClaimed(call.x, input.places, call.ret[1])

(***************************************************************************)
(* SpecCeil: b = b.Ceil() and b = b.Floor(), on a fast or fallback b as    *)
(* given or as the quotient b.Div(a) left it.                              *)
(***************************************************************************)
InitCeil == InitOperands(RoundOperands)

NextCeil ==
    /\ steps < MaxRound
    /\ (DivStep \/ CeilBStep \/ FloorBStep)

SpecCeil == InitCeil /\ [][NextCeil]_vars

\* the largest multiple of 10^12 that is at most z, and the smallest that
\* is at least z
FloorMultiple(z) == ZMul(ZDiv(z, scale), scale)
CeilMultiple(z) ==
    IF ZMod(z, scale) = Z0 THEN z ELSE ZAdd(FloorMultiple(z), scale)

\* the fast Decimal d is a whole number inside the fast range
WholeInRange(d) ==
    /\ IsOptimized(d)
    /\ ZRem(d.fixed, scale) = Z0
    /\ InFixedRange(d.fixed)

\* C21: Ceil of a fast Decimal is the smallest integer not below it and
\* Floor the largest integer not above it; both are fast whole numbers
\* inside [minFixed, maxFixed], Floor(d) <= d <= Ceil(d), and Ceil(d) -
\* Floor(d) is 0 or 1.
C21_CeilFloorBracket ==
    /\ (call.op = "Ceil" /\ IsOptimized(call.x)) =>
           /\ WholeInRange(call.ret[1])
           /\ call.ret[1].fixed = CeilMultiple(call.x.fixed)
           /\ ZLe(call.x.fixed, call.ret[1].fixed)
           /\ ZSub(call.ret[1].fixed, Floor(call.x).fixed) \in {Z0, scale}
    /\ (call.op = "Floor" /\ IsOptimized(call.x)) =>
           /\ WholeInRange(call.ret[1])
           /\ call.ret[1].fixed = FloorMultiple(call.x.fixed)
           /\ ZLe(call.ret[1].fixed, call.x.fixed)
           /\ ZSub(Ceil(call.x).fixed, call.ret[1].fixed) \in {Z0, scale}

(***************************************************************************)
(* SpecTruncate: b = b.Truncate(precision) for every precision from 0 to   *)
(* precision + PlacesAbove.                                                *)
(***************************************************************************)
TruncatePlaces == 0..(precision + PlacesAbove)

InitTruncate == InitOperands(RoundOperands)

\* a call with the argument p on x that panicked
PanickedAt(op, p, x) ==
    /\ call' = Call(op, x, Zero, <<>>, FALSE, NilValue, vb)
    /\ input' = PlacesInput(p)
    /\ steps' = steps + 1
    /\ UNCHANGED <<cache, readers, va, vb, nd, heap>>

\* b = b.Truncate(precision)
TruncateStep ==
    \E p \in TruncatePlaces :
        IF Truncate(Load(heap, vb), p) = <<>>
        THEN PanickedAt("Truncate", p, Load(heap, vb))
        ELSE Rounded("Truncate", p, Load(heap, vb),
                     Truncate(Load(heap, vb), p)[1])

NextTruncate ==
    /\ steps < MaxRound
    /\ TruncateStep

SpecTruncate == InitTruncate /\ [][NextTruncate]_vars

\* z with the digits below 10^-p dropped toward zero
TruncatedAt(z, p) ==
    IF p >= precision THEN z
    ELSE ZMul(ZQuo(z, ZPow10(precision - p)), ZPow10(precision - p))

\* Truncate(p) of the fast x returned ret as the claim states
TruncatedAsClaimed(x, p, ret) ==
    /\ ret # <<>>
    /\ IsOptimized(ret[1])
    /\ ret[1].fixed = TruncatedAt(x.fixed, p)
    /\ decCmp(asFallback(ret[1]), decTruncate(asFallback(x), p)) = 0

\* C22: Truncate(p) of a fast Decimal, for every p >= 0, completes and
\* returns the Decimal with the fractional digits after the p-th dropped
\* toward zero, the Decimal itself when it has no more than p fractional
\* digits, as the engine's Truncate does.
C22_TruncateCompletes ==
    (call.op = "Truncate" /\ IsOptimized(call.x)) =>
        TruncatedAsClaimed(call.x, input.places, call.ret)

(***************************************************************************)
(* SpecCmp: the comparisons of b with a, for fast values, fallback values  *)
(* holding the same numbers, and a fallback value Scan left with an old    *)
(* fixed field.                                                            *)
(***************************************************************************)
\* the Decimal b holds after b.Scan("1.5") and b.Scan("9223372")
ScannedTwice ==
    Scan(Scan(Zero, StringValue(<<"1", ".", "5">>))[1],
         StringValue(<<"9", "2", "2", "3", "3", "7", "2">>))[1]

CmpOperands ==
    {Zero, Fast(OneFixed), Fast(Fixed1p5), Fast(ZNeg(Fixed1p5)),
     Fast(FixedMax), Fast(FixedMin), Fast(Z1),
     NewFromInt(maxInt), NewFromInt(ZLit(<<9, 223, 373>>)),
     NewFromString(<<"9", "2", "2", "3", "3", "7", "2">>)[1],
     ScannedTwice,
     newFromDecimal(decNew(ZInt(15), -1)),
     newFromDecimal(decNew(ZInt(1500), -3)),
     newFromDecimal(decNew(Z0, 5)),
     newFromDecimal(decNew(ZInt(-15), -1)),
     newFromDecimal(decNew(Z1, -13))}

InitCmp == InitOperands(CmpOperands)

\* b.Cmp(a), a.Cmp(b), b.Equal(a), b.GreaterThan(a), b.LessThan(a),
\* b.GreaterThanOrEqual(a), b.LessThanOrEqual(a)
CmpStep ==
    /\ call' = Call("Cmp", Load(heap, vb), Load(heap, va),
                    <<Cmp(Load(heap, vb), Load(heap, va)),
                      Cmp(Load(heap, va), Load(heap, vb)),
                      Equal(Load(heap, vb), Load(heap, va)),
                      GreaterThan(Load(heap, vb), Load(heap, va)),
                      LessThan(Load(heap, vb), Load(heap, va)),
                      GreaterThanOrEqual(Load(heap, vb), Load(heap, va)),
                      LessThanOrEqual(Load(heap, vb), Load(heap, va))>>,
                    FALSE, NilValue, vb)
    /\ steps' = steps + 1
    /\ UNCHANGED <<cache, readers, va, vb, nd, heap, input>>

NextCmp == steps = 0 /\ CmpStep

SpecCmp == InitCmp /\ [][NextCmp]_vars

\* the number d holds as coefficient and exponent: its fixed field at
\* 10^-12 when fast, the value behind the pointer otherwise
Number(d) == IF IsOptimized(d) THEN decNew(d.fixed, -12) ELSE d.fallback[1]

\* -1, 0 or 1 as x * 10^ex is below, equal to or above y * 10^ey
Order(x, ex, y, ey) ==
    ZCmp(ZMul(x, ZPow10(ex + 13)), ZMul(y, ZPow10(ey + 13)))

\* C23: the comparisons go by the numbers held, whatever the
\* representations: Cmp is -1, 0 or 1 as b < a, b = a, b > a, Cmp(a, b) =
\* -Cmp(b, a), and Equal, GreaterThan, LessThan, GreaterThanOrEqual and
\* LessThanOrEqual are Cmp = 0, = 1, = -1, not LessThan, not GreaterThan.
C23_CmpByValue ==
    call.op = "Cmp" =>
        /\ call.ret[1] = Order(Number(call.x).value, Number(call.x).exp,
                               Number(call.y).value, Number(call.y).exp)
        /\ call.ret[2] = -call.ret[1]
        /\ call.ret[3] <=> call.ret[1] = 0
        /\ call.ret[4] <=> call.ret[1] = 1
        /\ call.ret[5] <=> call.ret[1] = -1
        /\ call.ret[6] <=> ~call.ret[5]
        /\ call.ret[7] <=> ~call.ret[4]

\* NewFromInt(9223372), fast, and NewFromString("9223372"), fallback, were
\* compared and are Equal
C23_Witness ==
    /\ call.op = "Cmp"
    /\ call.x = NewFromInt(maxInt)
    /\ IsOptimized(call.x)
    /\ call.y = NewFromString(<<"9", "2", "2", "3", "3", "7", "2">>)[1]
    /\ ~IsOptimized(call.y)
    /\ call.ret = <<0, 0, TRUE, FALSE, FALSE, TRUE, TRUE>>


\* ---------------------------------------------------------------------
\* SpecMul: b.Mul(a) for fast operands whose fractional parts use the
\* low six digits
\* ---------------------------------------------------------------------

\* 0.013916015625 and 0.000007000064: the halves are 13916 | 015625 and
\* 7 | 000064, so p1 = 13916 * 64 + 15625 * 7 = 999999 and
\* p2 = 15625 * 64 = 10^6, and the product is 0.000000097413 exactly
FixedLow5p6 == ZLit(<<13, 916, 15, 625>>)
FixedLow2p6 == ZLit(<<7, 0, 64>>)
\* 0.000001000001 and 3: one factor without a fractional part
FixedMicroPlus == ZLit(<<1, 0, 1>>)
Fixed3 == ZLit(<<3, 0, 0, 0, 0>>)

MulOperands ==
    LiteralOperands \cup
    {Fast(f) : f \in {FixedLow5p6, FixedLow2p6, FixedMicroPlus, Fixed3,
                      ZNeg(FixedLow2p6)}}

InitMul == InitOperands(MulOperands)

NextMul == steps = 0 /\ MulStep

SpecMul == InitMul /\ [][NextMul]_vars

\* x.fixed * y.fixed is divisible by 10^12 and the quotient, the fixed
\* field of the exact product, is within [minFixed, maxFixed]
ProductFits(x, y) ==
    /\ ZRem(ZMul(x, y), ZPow10(12)) = Z0
    /\ InFixedRange(ZQuo(ZMul(x, y), ZPow10(12)))

\* C24: for fast operands x and y within [minFixed, maxFixed] whose exact
\* product is within [minFixed, maxFixed] and needs at most 12 fractional
\* digits, mul(x.fixed, y.fixed) reports success and Mul returns a fast
\* Decimal
C24_MulKeepsRepresentable ==
    (/\ call.op = "Mul"
     /\ BothFast
     /\ InFixedRange(call.x.fixed)
     /\ InFixedRange(call.y.fixed)
     /\ ProductFits(call.x.fixed, call.y.fixed)) =>
        /\ mul(call.x.fixed, call.y.fixed)[2]
        /\ IsOptimized(call.ret[1])


\* ---------------------------------------------------------------------
\* SpecNullInput: one call of Scan, UnmarshalJSON or UnmarshalText on a
\* NullDecimal nd that holds an earlier state
\* ---------------------------------------------------------------------

\* "1.5", "-0.5", "9223372" and "1e3" (both left to the fallback engine),
\* the JSON string "1.5" in quotes, "null", the empty text and the texts
\* "x" and "1.2.3" that are no numbers
NullTexts ==
    {<<"1", ".", "5">>, <<"-", "0", ".", "5">>,
     <<"9", "2", "2", "3", "3", "7", "2">>, <<"1", "e", "3">>,
     <<"\"", "1", ".", "5", "\"">>, NullText, <<>>, <<"x">>,
     <<"1", ".", "2", ".", "3">>}

\* the Decimals nd wraps before the call: the zero value, the fast 1.5 and
\* 2, and the fallback 9223373 and 0.0
NullPriors == {Zero, Fast(Fixed1p5), Fast(TwoFixed)} \cup FallbackOperands

InitNullInput ==
    /\ \E d \in NullPriors, valid \in BOOLEAN :
           /\ nd = NullDecimal(Store(<<>>, d)[1], valid)
           /\ heap = Store(<<>>, d)[2]
    /\ va = ZeroRef
    /\ vb = ZeroRef
    /\ input = NoInput
    /\ call = NoCall
    /\ steps = 0
    /\ PackageLoaded

\* err = nd.Scan(v)
NullScanInputStep ==
    \E v \in {NilValue} \cup {StringValue(t) : t \in NullTexts} :
        NullScanned(v, NullDecimalScan(NullDecimal(Load(heap, nd.Decimal),
                                                   nd.Valid), v))

\* err = nd.UnmarshalJSON(t)
NullUnmarshalJSONInputStep ==
    \E t \in NullTexts :
        NullReceived("NullDecimal.UnmarshalJSON", StringValue(t),
                     t # NullText,
                     NullUnmarshalJSON(NullDecimal(Load(heap, nd.Decimal),
                                                   nd.Valid), t))

\* err = nd.UnmarshalText(t)
NullUnmarshalTextInputStep ==
    \E t \in NullTexts :
        NullReceived("NullDecimal.UnmarshalText", StringValue(t),
                     t # <<>>,
                     NullUnmarshalText(NullDecimal(Load(heap, nd.Decimal),
                                                   nd.Valid), t))

NextNullInput ==
    /\ steps = 0
    /\ \/ NullScanInputStep
       \/ NullUnmarshalJSONInputStep
       \/ NullUnmarshalTextInputStep

SpecNullInput == InitNullInput /\ [][NextNullInput]_vars

\* the call was given a value other than nil, the literal null of
\* UnmarshalJSON and the empty text of UnmarshalText
NonNullInput ==
    \/ call.op = "NullDecimal.Scan" /\ ~call.arg.isNil
    \/ call.op = "NullDecimal.UnmarshalJSON" /\ call.arg.text # NullText
    \/ call.op = "NullDecimal.UnmarshalText" /\ call.arg.text # <<>>

\* the Decimal constructed from the text of the argument, and its error
Constructed(op, arg) ==
    IF op = "NullDecimal.UnmarshalText" THEN NewFromString(arg.text)
    ELSE NewFromString(Unquote(arg.text))

\* nd.Valid after the call, given the error and the direct construction c
NullInputSettled(op, err, c) ==
    /\ c[2] => err
    /\ nd.Valid = (op # "NullDecimal.UnmarshalText" \/ ~err)
    /\ err => (nd.Decimal = call.recv /\ Load(heap, nd.Decimal) = call.x)
    /\ ~err => (~c[2] /\ SameValue(Load(heap, nd.Decimal), c[1]))

EngineRead(t) == IF t = NullText THEN <<decZero>> ELSE decNewFromString(Unquote(t))

\* the pointer of b was allocated by the last call: no other variable and
\* not the receiver before the call holds it
FreshHandle ==
    /\ vb.fallback = Len(heap)
    /\ vb.fallback \notin {0, call.recv.fallback, va.fallback, nd.Decimal.fallback}

\* b shows the value e in String, Equal and Cmp
ShowsValue(d, e) ==
    /\ String(d) = decString(e)
    /\ Equal(d, newFromDecimal(e))
    /\ Cmp(d, newFromDecimal(e)) = 0
    /\ Cmp(newFromDecimal(e), d) = 0

\* b after a call given the text t
ObservedText(d, t) ==
    /\ EngineRead(t) # <<>>
    /\ ShowsValue(d, EngineRead(t)[1])
    /\ IsOptimized(d) = parseFixed(t)[2]
    /\ IF IsOptimized(d) THEN vb.fallback = 0 ELSE FreshHandle

\* b after UnmarshalBinary given one of the encodings
ObservedBinary(d) ==
    /\ \E data \in Binaries :
           /\ decUnmarshalBinary(data) # <<>>
           /\ ShowsValue(d, decUnmarshalBinary(data)[1])
    /\ ~IsOptimized(d)
    /\ FreshHandle

\* C26: after a call of Scan, UnmarshalJSON, UnmarshalText or
\* UnmarshalBinary on b that returned no error, whatever b held before,
\* String, Equal and Cmp show the value of the input of that call; b is
\* fast with a nil pointer when parseFixed accepts the input, and holds a
\* newly allocated pointer otherwise.
C26_LastInputWins ==
    (call.op \in ReceiverOps /\ ~call.err) =>
        IF call.op = "UnmarshalBinary" THEN ObservedBinary(Load(heap, vb))
        ELSE ObservedText(Load(heap, vb), call.arg.text)

\* b held the fallback 9223372 and b.Scan("1.5") left the fast 1.5
C26_Witness ==
    /\ call.op = "Scan"
    /\ ~call.err
    /\ call.arg = StringValue(<<"1", ".", "5">>)
    /\ call.recv.fallback # 0
    /\ call.x = newFromDecimal(decNew(ZLit(<<9, 223, 372>>), 0))
    /\ vb.fallback = 0
    /\ Load(heap, vb) = Fast(Fixed1p5)


\* ---------------------------------------------------------------------
\* SpecScanOld: a sequence of calls of Scan of src/decimal.go on b
\* ---------------------------------------------------------------------
MaxScans == 2

\* the texts of TestDecimalScan, texts with a sign, with trailing zeros
\* and in quotes, the out-of-range 9223372 and 9223373.5, and "x"
OldTexts ==
    {<<"0">>, <<"1", "2">>, <<"-", "1", "2", "3", "4">>,
     <<"0", ".", "1", "2", "3">>, <<"1", ".", "5">>, <<"0", ".", "5", "0">>,
     <<"+", "7">>, <<"-", "0", ".", "5">>,
     <<"9", "2", "2", "3", "3", "7", "2">>,
     <<"9", "2", "2", "3", "3", "7", "3", ".", "5">>,
     <<"\"", "1", ".", "5", "\"">>, <<"x">>}

InitScanOld == InitRegs /\ input = NoInput

\* err = b.Scan(v)
ScanOldStep ==
    \E v \in {NilValue} \cup {StringValue(t) : t \in OldTexts} :
        Received("Scan", v, ScanOld(Load(heap, vb), v))

NextScanOld == steps < MaxScans /\ ScanOldStep

SpecScanOld == InitScanOld /\ [][NextScanOld]_vars

\* the scanned text t as the engine writes its value
EngineText(t) == decString(decNewFromString(Unquote(t))[1])

\* C27: in src/decimal.go, after b.Scan(t) returned nil for a text t,
\* b.String() is the normalized text t, whatever b held before.
C27_ScanShowsInput ==
    (call.op = "Scan" /\ ~call.err) =>
        StringOld(Load(heap, vb)) = EngineText(call.arg.text)

\* C30: in src/decimal.go, for a text t = sign + u whose unsigned part u
\* parseFixed accepts with f, parseFixed accepts t with -f for '-' and f
\* for '+'.
C30_SignConsumed ==
    (/\ call.op = "Scan"
     /\ Len(call.arg.text) > 1
     /\ call.arg.text[1] \in {"+", "-"}
     /\ parseFixedOld(Tail(call.arg.text))[2]) =>
        parseFixedOld(call.arg.text) =
            <<parseNegate(parseFixedOld(Tail(call.arg.text))[1],
                          call.arg.text[1] = "-"), TRUE>>


(***************************************************************************)
(* SpecRep: sequences of constructions into a, of Scan and Unmarshal       *)
(* calls on b, and of b = a, b = a.Copy(), b = b.Add(a), b.Sub(a),         *)
(* b.Mul(a), b.Neg(), b.Abs(), b.Ceil(), b.Floor(), b.Round(places) and    *)
(* b.Truncate(precision), on values at the ends of the fast range.         *)
(***************************************************************************)
MaxRep == 3

\* 9223372, -9223372 and 9223373
RepInts == {maxInt, minInt, ZAdd(maxInt, Z1)}

\* 9223371.999999999999, -9223372 * 10^0, 9 * 10^6, 10 * 10^6 and 15 * 10^-1
RepDecimals ==
    {decNew(ZLit(<<9, 223, 371, 999, 999, 999, 999>>), -12),
     decNew(minInt, 0), decNew(ZInt(9), 6), decNew(ZInt(10), 6),
     decNew(ZInt(15), -1)}

RepTexts ==
    {<<"9", "2", "2", "3", "3", "7", "1", ".", "5">>,
     <<"-", "9", "2", "2", "3", "3", "7", "1", ".", "9", "9", "9", "9", "9",
       "9", "9", "9", "9", "9", "9", "9">>,
     <<"2">>}

\* Round(places) with places >= 0, Truncate(precision) with 0 <= precision <= 12
RepPlaces == {0, 1, precision}

\* a = <constructor>(value, exp), which returned d
BuiltA(op, value, exp, d) ==
    /\ va' = Store(heap, d)[1]
    /\ heap' = Store(heap, d)[2]
    /\ call' = Call(op, Zero, Zero, <<d>>, FALSE, NilValue, va)
    /\ input' = DecInput(value, exp)
    /\ steps' = steps + 1
    /\ UNCHANGED <<cache, readers, vb, nd>>

\* a = NewFromInt(x)
RepNewFromIntStep == \E x \in RepInts : BuiltA("NewFromInt", x, 0, NewFromInt(x))

\* a = New(value, exp)
RepNewStep ==
    \E e \in RepDecimals : BuiltA("New", e.value, e.exp, New(e.value, e.exp))

\* a = NewFromDecimal(e)
RepNewFromDecimalStep ==
    \E e \in RepDecimals :
        BuiltA("NewFromDecimal", e.value, e.exp, NewFromDecimal(e))

\* a, err = NewFromString(t)
RepNewFromStringStep ==
    \E t \in RepTexts : NewFromStringResult(StringValue(t), NewFromString(t))

\* err = b.Scan(t)
RepScanStep ==
    \E t \in RepTexts :
        Received("Scan", StringValue(t), Scan(Load(heap, vb), StringValue(t)))

\* err = b.UnmarshalJSON(t)
RepUnmarshalJSONStep ==
    \E t \in RepTexts :
        Received("UnmarshalJSON", StringValue(t), UnmarshalJSON(Load(heap, vb), t))

\* err = b.UnmarshalText(t)
RepUnmarshalTextStep ==
    \E t \in RepTexts :
        Received("UnmarshalText", StringValue(t), UnmarshalText(Load(heap, vb), t))

\* b = b.Round(places)
RepRoundStep ==
    \E p \in RepPlaces :
        Rounded("Round", p, Load(heap, vb), Round(Load(heap, vb), p))

\* b = b.Truncate(precision)
RepTruncateStep ==
    \E p \in RepPlaces :
        Rounded("Truncate", p, Load(heap, vb), Truncate(Load(heap, vb), p)[1])

InitRep == InitRegs /\ input = NoInput

NextRep ==
    /\ steps < MaxRep
    /\ \/ RepNewFromIntStep
       \/ RepNewStep
       \/ RepNewFromDecimalStep
       \/ RepNewFromStringStep
       \/ RepScanStep
       \/ RepUnmarshalJSONStep
       \/ RepUnmarshalTextStep
       \/ AssignBStep
       \/ CopyBStep
       \/ AddStep
       \/ SubStep
       \/ MulStep
       \/ NegBStep
       \/ AbsBStep
       \/ CeilBStep
       \/ FloorBStep
       \/ RepRoundStep
       \/ RepTruncateStep

SpecRep == InitRep /\ [][NextRep]_vars

UnaryOps == {"Neg", "Abs", "Ceil", "Floor", "Round", "Truncate", "Copy"}

\* the fast Decimal d holds the value of the engine's e
ExactlyHolds(d, e) == decCmp(decNew(d.fixed, -precision), e) = 0

\* the fast result d of the call op on the fast x (and y) is the exact
\* result, and no int64 operation of the call wrapped around
NoOverflow(op, x, y, d, p) ==
    CASE op = "Add" ->
             /\ ~OvfSub(IF ZGt(y, Z0) THEN maxIntInFixed ELSE minIntInFixed, y)
             /\ d = ZAdd(x, y)
      [] op = "Sub" ->
             /\ ~OvfNeg(y)
             /\ ~OvfSub(IF ZLt(y, Z0) THEN maxIntInFixed ELSE minIntInFixed,
                        ZNeg(y))
             /\ d = ZSub(x, y)
      [] op = "Mul" ->
             /\ ~mulTraced(x, y).ovf
             /\ ZMul(d, scale) = ZMul(x, y)
      [] op = "Neg" -> d = ZNeg(x)
      [] op = "Abs" -> d = ZAbs(x)
      [] op = "Ceil" -> d = CeilMultiple(x)
      [] op = "Floor" -> d = FloorMultiple(x)
      [] op = "Round" ->
             d = (IF p >= precision THEN x
                  ELSE NearestMultiple(x, ZPow10(precision - p)))
      [] op = "Truncate" -> d = TruncatedAt(x, p)
      [] OTHER -> d = x

\* the fast Decimal a constructor or a parsing call left is the value given
BuiltExactly(op, d) ==
    /\ op \in {"NewFromInt", "New", "NewFromDecimal"} =>
           ExactlyHolds(d, decNew(input.num, input.exp))
    /\ op \in ParseOps =>
           ExactlyHolds(d, decNewFromString(Unquote(call.arg.text))[1])

\* C28: in every state reached by these calls a fast a and a fast b have
\* minFixed <= fixed <= maxFixed; a call that returned a fast Decimal
\* returned the exact result without an int64 operation wrapping around;
\* and Neg, Abs, Ceil, Floor, Round, Truncate and Copy of a fast Decimal
\* return a fast Decimal.
C28_FastFormInvariant ==
    /\ \A r \in {va, vb} : r.fallback = 0 => InFixedRange(r.fixed)
    /\ (call.op \in UnaryOps /\ IsOptimized(call.x)) =>
           IsOptimized(call.ret[1])
    /\ (call.op \in UnaryOps \cup {"Add", "Sub", "Mul"}
          /\ BothFast /\ IsOptimized(call.ret[1])) =>
           NoOverflow(call.op, call.x.fixed, call.y.fixed,
                      call.ret[1].fixed,
                      IF input.kind = "places" THEN input.places ELSE 0)
    /\ (call.op \in ParseOps \cup {"NewFromInt", "New", "NewFromDecimal"}
          /\ ~call.err /\ IsOptimized(call.ret[1])) =>
           BuiltExactly(call.op, call.ret[1])

\* a = 9223371.5 was parsed, b = a, and b.Ceil() returned the fast 9223372
C28_Witness ==
    /\ call.op = "Ceil"
    /\ call.x = Fast(FixedNearMax)
    /\ call.ret = <<Fast(FixedMax)>>
    /\ vb = Ref(FixedMax, 0)
    /\ Load(heap, va) = Fast(FixedNearMax)


(***************************************************************************)
(* SpecCache: the package is loaded, init() writing the entries of the     *)
(* caches one after the other, and then two goroutines call String and     *)
(* Value in any interleaving.  A call is two steps, the call with its      *)
(* receiver and the read that returns; the Go runtime starts no goroutine  *)
(* of an importing package before init() has returned.                     *)
(***************************************************************************)
\* -1000, 1.5 and 1000, which the caches hold, 0.000001, which they do not,
\* and the fallback 9223373
CacheOperands ==
    {Fast(aNeg1000InFixed), Fast(Fixed1p5), Fast(a1000InFixed),
     Fast(FixedMicro), NewFromInt(ZLit(<<9, 223, 373>>))}

InitCache ==
    /\ va = ZeroRef
    /\ vb = ZeroRef
    /\ nd = NullDecimal(ZeroRef, FALSE)
    /\ heap = <<>>
    /\ input = NoInput
    /\ call = NoCall
    /\ steps = 0
    /\ cache = 0
    /\ readers = Idle

\* valueCache[i] = str; stringCache[i] = str; i++
InitLoopStep ==
    /\ initRunning(cache)
    /\ cache' = cache + 1
    /\ UNCHANGED <<va, vb, nd, heap, input, call, steps, readers>>

\* the goroutine t calls d.String() or d.Value()
Called(t, op) ==
    /\ ~initRunning(cache)
    /\ readers[t].pc = "idle"
    /\ \E d \in CacheOperands :
           readers' = [readers EXCEPT ![t] = Reader("called", op, d, <<>>)]
    /\ UNCHANGED <<va, vb, nd, heap, input, call, steps, cache>>

\* the call of the goroutine t reads and returns ret
Read(t, op, ret) ==
    /\ readers[t].pc = "called"
    /\ readers[t].op = op
    /\ readers' = [readers EXCEPT ![t] = Reader("done", op, readers[t].d, <<ret>>)]
    /\ UNCHANGED <<va, vb, nd, heap, input, call, steps, cache>>

StringCallStep == \E t \in Threads : Called(t, "String")
ValueCallStep == \E t \in Threads : Called(t, "Value")
StringReadStep ==
    \E t \in Threads : Read(t, "String", StringRead(cache, readers[t].d))
ValueReadStep ==
    \E t \in Threads : Read(t, "Value", ValueRead(cache, readers[t].d))

NextCache ==
    \/ InitLoopStep
    \/ StringCallStep
    \/ ValueCallStep
    \/ StringReadStep
    \/ ValueReadStep

SpecCache == InitCache /\ [][NextCache]_vars

\* what the call op on d returns when nothing else runs
Sequential(op, d) == IF op = "String" THEN String(d) ELSE Value(d)

\* C29: the caches change only by a step of init(), which writes the next
\* entry while no goroutine has made a call, and init() has written all
\* cacheSize entries before the first call; no step of a String or Value
\* call changes them, and in every interleaving of the calls of the two
\* goroutines each call returns what a sequential call returns.
C29_CacheReadOnly ==
    [][/\ cache' # cache =>
              (cache' = cache + 1 /\ readers = Idle /\ readers' = Idle)
       /\ readers' # readers => cache' = cache /\ cache = cacheSize
       /\ \A t \in Threads :
              readers'[t].pc = "done" =>
                  readers'[t].ret = <<Sequential(readers'[t].op, readers'[t].d)>>]_vars

\* g1 has read "1.5" from stringCache while g2 was inside Value() of -1000
C29_Witness ==
    /\ cache = cacheSize
    /\ readers["g1"] = Reader("done", "String", Fast(Fixed1p5),
                              <<<<"1", ".", "5">>>>)
    /\ readers["g2"] = Reader("called", "Value", Fast(aNeg1000InFixed), <<>>)

=============================================================================
